---- MODULE Spec2Model ----
(***************************************************************************)
(* A model of the statement-ingestion engine of networth-pro:              *)
(*   backend/services/statement_parser.py  (parse_statement and the        *)
(*       parsers, the shared date and amount parsers, the module-level     *)
(*       date-format hint)                                                 *)
(*   backend/services/categorizer.py       (detect_recurring_pattern)      *)
(*                                                                         *)
(* Text is modelled as a sequence of one-character strings, so that the    *)
(* string operations of the code (strip, startswith, replace, re.sub) are  *)
(* computed and not assumed.  An Optional value is a sequence of length 0  *)
(* (None) or 1 (the value).  Amounts are integers counting hundredths.     *)
(***************************************************************************)
EXTENDS Integers, Sequences, FiniteSets, TLC

VARIABLES
    amount_str,      \* parse_amount: the argument
    amount_ret,      \* parse_amount: the returned Optional amount
    amount_done,     \* parse_amount has returned
    transactions,    \* detect_recurring_pattern: the argument (a list of dicts)
    min_occurrences, \* detect_recurring_pattern: the argument
    amount_tolerance,        \* detect_recurring_pattern: the argument, in percent
    detected_subscriptions,  \* detect_recurring_pattern: the returned list
    recurring_done,  \* detect_recurring_pattern has returned
    ofx_content,     \* parse_ofx_statement: the argument, as a list of tags
    ofx_result,      \* parse_ofx_statement: the returned StatementParseResult
    ofx_done,        \* parse_ofx_statement has returned
    detected_date_format,    \* the module-level _detected_date_format
    uploads,         \* per worker: the parse_statement calls it has yet to make
    call,            \* per worker: the call it is in (position, locals, result)
    returned,        \* per worker: the calls it has made, with what they returned
    ai_file_type,    \* parse_with_ai: the argument file_type
    ai_responses,    \* parse_with_ai: what the model answers, request by request
    ai_result,       \* parse_with_ai: the returned StatementParseResult
    ai_done,         \* parse_with_ai has returned
    retry            \* _retry_with_backoff: its arguments, locals and position

amountVars == <<amount_str, amount_ret, amount_done>>

recurringVars ==
    <<transactions, min_occurrences, amount_tolerance, detected_subscriptions,
      recurring_done>>

ofxVars == <<ofx_content, ofx_result, ofx_done>>

parseVars == <<detected_date_format, uploads, call, returned>>

aiVars == <<ai_file_type, ai_responses, ai_result, ai_done>>

vars == <<amountVars, recurringVars, ofxVars, parseVars, aiVars, retry>>

None == <<>>

Some(v) == <<v>>

Abs(n) == IF n < 0 THEN -n ELSE n

\* The entry points are independent: a run exercises one of them and leaves
\* the arguments and results of the others empty.
IdleAmount == amount_str = <<>> /\ amount_ret = None /\ amount_done = FALSE

IdleRecurring ==
    /\ transactions = <<>>
    /\ min_occurrences = 0
    /\ amount_tolerance = 0
    /\ detected_subscriptions = <<>>
    /\ recurring_done = FALSE

\* StatementParseResult() (statement_parser.py 26-36), without the debug
\* fields headers_detected and sample_lines.
NewResult ==
    [transactions |-> <<>>, errors |-> <<>>, warnings |-> <<>>,
     bank_detected |-> None, account_info |-> None, parser_used |-> "unknown"]

IdleOfx == ofx_content = <<>> /\ ofx_result = NewResult /\ ofx_done = FALSE

\* The workers that call parse_statement.
NumWorkers == 2

Workers == 1..NumWorkers

\* _detected_date_format is None ("" here), "DMY" or "MDY".
NoHint == ""

\* The request and the CSV layout of a worker that is in no call.
NoRequest ==
    [filename |-> <<>>,
     content |-> [magic |-> "none", rows |-> <<>>, tags |-> <<>>, pdf_valid |-> FALSE,
                  pages |-> <<>>],
     openai_api_key |-> FALSE]

NoLayout ==
    [error |-> "", header_idx |-> 1, data_rows |-> <<>>, date_col |-> 0, desc_col |-> 0,
     amount_col |-> 0, debit_col |-> 0, credit_col |-> 0, bank_detected |-> None,
     warnings |-> <<>>]

\* A worker that is in no call.
IdleCall ==
    [pc |-> "idle", req |-> NoRequest, layout |-> NoLayout, lines |-> <<>>, k |-> 0,
     n |-> 0, result |-> NewResult]

IdleParse ==
    /\ detected_date_format = NoHint
    /\ uploads = [w \in Workers |-> <<>>]
    /\ call = [w \in Workers |-> IdleCall]
    /\ returned = [w \in Workers |-> <<>>]

IdleAi ==
    /\ ai_file_type = ""
    /\ ai_responses = <<>>
    /\ ai_result = NewResult
    /\ ai_done = FALSE

\* _retry_with_backoff is not called.
NoRetry ==
    [pc |-> "idle", max_retries |-> 0, outcomes |-> <<>>, attempt |-> 0, delay |-> 0,
     last_exception |-> "", invocations |-> 0, slept |-> <<>>]

IdleRetry == retry = NoRetry

\* Every entry point but the named one is idle.
IdleBut(entry) ==
    /\ IF entry = "amount" THEN TRUE ELSE IdleAmount
    /\ IF entry = "recurring" THEN TRUE ELSE IdleRecurring
    /\ IF entry = "ofx" THEN TRUE ELSE IdleOfx
    /\ IF entry = "parse" THEN TRUE ELSE IdleParse
    /\ IF entry = "ai" THEN TRUE ELSE IdleAi
    /\ IF entry = "retry" THEN TRUE ELSE IdleRetry

(***************************************************************************)
(* String helpers (Python str methods and the re calls the code makes).    *)
(***************************************************************************)
Whitespace == {" "}

RECURSIVE LStripSet(_, _)
LStripSet(s, chars) ==
    IF s # <<>> /\ Head(s) \in chars THEN LStripSet(Tail(s), chars) ELSE s

RECURSIVE RStripSet(_, _)
RStripSet(s, chars) ==
    IF s # <<>> /\ s[Len(s)] \in chars
    THEN RStripSet(SubSeq(s, 1, Len(s) - 1), chars)
    ELSE s

Strip(s) == RStripSet(LStripSet(s, Whitespace), Whitespace)

StartsWith(s, p) == Len(s) >= Len(p) /\ SubSeq(s, 1, Len(p)) = p

EndsWith(s, p) == Len(s) >= Len(p) /\ SubSeq(s, Len(s) - Len(p) + 1, Len(s)) = p

Contains(s, p) ==
    \E i \in 1..(Len(s) - Len(p) + 1) : SubSeq(s, i, i + Len(p) - 1) = p

RemoveChars(s, chars) == SelectSeq(s, LAMBDA c : c \notin chars)

UpperChar(c) ==
    CASE c = "a" -> "A" [] c = "b" -> "B" [] c = "c" -> "C" [] c = "d" -> "D"
      [] c = "e" -> "E" [] c = "f" -> "F" [] c = "g" -> "G" [] c = "h" -> "H"
      [] c = "i" -> "I" [] c = "j" -> "J" [] c = "k" -> "K" [] c = "l" -> "L"
      [] c = "m" -> "M" [] c = "n" -> "N" [] c = "o" -> "O" [] c = "p" -> "P"
      [] c = "q" -> "Q" [] c = "r" -> "R" [] c = "s" -> "S" [] c = "t" -> "T"
      [] c = "u" -> "U" [] c = "v" -> "V" [] c = "w" -> "W" [] c = "x" -> "X"
      [] c = "y" -> "Y" [] c = "z" -> "Z"
      [] OTHER -> c

Upper(s) == [i \in 1..Len(s) |-> UpperChar(s[i])]

Digits == {"0", "1", "2", "3", "4", "5", "6", "7", "8", "9"}

DigitVal(c) ==
    CASE c = "0" -> 0 [] c = "1" -> 1 [] c = "2" -> 2 [] c = "3" -> 3
      [] c = "4" -> 4 [] c = "5" -> 5 [] c = "6" -> 6 [] c = "7" -> 7
      [] c = "8" -> 8 [] c = "9" -> 9

RECURSIVE DigitsVal(_)
DigitsVal(s) ==
    IF s = <<>> THEN 0
    ELSE 10 * DigitsVal(SubSeq(s, 1, Len(s) - 1)) + DigitVal(s[Len(s)])

AllDigits(s) == \A i \in 1..Len(s) : s[i] \in Digits

\* The position of the first "." of s, or 0.
DotAt(s) ==
    IF \E i \in 1..Len(s) : s[i] = "."
    THEN CHOOSE i \in 1..Len(s) : s[i] = "." /\ \A j \in 1..(i - 1) : s[j] # "."
    ELSE 0

\* The fraction digits of a decimal, in hundredths.  The tokens of the model
\* carry at most two fraction digits; a longer fraction is read to the hundredth.
FracCents(f) ==
    IF Len(f) = 0 THEN 0
    ELSE IF Len(f) = 1 THEN 10 * DigitVal(f[1])
    ELSE 10 * DigitVal(f[1]) + DigitVal(f[2])

\* An unsigned decimal as float() accepts it: digits, at most one ".", at
\* least one digit.  In hundredths.
UnsignedFloat(s) ==
    LET d == DotAt(s)
        whole == IF d = 0 THEN s ELSE SubSeq(s, 1, d - 1)
        frac == IF d = 0 THEN <<>> ELSE SubSeq(s, d + 1, Len(s))
    IN  IF AllDigits(whole) /\ AllDigits(frac) /\ Len(whole) + Len(frac) > 0
        THEN Some(100 * DigitsVal(whole) + FracCents(frac))
        ELSE None

\* Python's float(s) on the characters of the model: an optional sign, then
\* an unsigned decimal; anything else raises ValueError (None here).
PyFloat(s) ==
    IF s # <<>> /\ Head(s) \in {"-", "+"}
    THEN LET u == UnsignedFloat(Tail(s))
         IN  IF u = None THEN None
             ELSE IF Head(s) = "-" THEN Some(-u[1]) ELSE u
    ELSE UnsignedFloat(s)

(***************************************************************************)
(* parse_amount (statement_parser.py 127-188).                             *)
(***************************************************************************)
CurrencySymbols == {"$", "£", "€", "¥", "₹", "₿"}

parse_amount_no_paren(amount_str0) ==
    LET c0 == Strip(amount_str0)
        lead == StartsWith(c0, <<"-">>)
        c1 == IF lead THEN LStripSet(c0, {"-", " "})
              ELSE IF StartsWith(c0, <<"+">>) THEN Tail(c0) ELSE c0
        neg2 == lead \/ Contains(c1, <<"$", "-">>) \/ Contains(c1, <<"$", " ", "-">>)
        c2 == Strip(RemoveChars(c1, CurrencySymbols))
        neg3 == neg2 \/ StartsWith(c2, <<"-">>)
        c3 == IF StartsWith(c2, <<"-">>) THEN Tail(c2) ELSE c2
        c4 == RemoveChars(RemoveChars(c3, {","}), {" "})
        cr == EndsWith(Upper(c4), <<"C", "R">>)
        dr == EndsWith(Upper(c4), <<"D", "R">>)
        neg5 == IF cr THEN FALSE ELSE IF dr THEN TRUE ELSE neg3
        c6 == IF cr \/ dr THEN SubSeq(c4, 1, Len(c4) - 2) ELSE c4
        v == PyFloat(c6)
    IN  IF amount_str0 = <<>> \/ c0 = <<>> \/ v = None THEN None
        ELSE IF neg5 THEN Some(-Abs(v[1])) ELSE Some(Abs(v[1]))

parse_amount(amount_str0) ==
    LET c0 == Strip(amount_str0)
        lead == StartsWith(c0, <<"-">>)
        \* 150-155: an explicit sign at the start
        c1 == IF lead THEN LStripSet(c0, {"-", " "})
              ELSE IF StartsWith(c0, <<"+">>) THEN Tail(c0) ELSE c0
        \* 158-160: "$-" or "$ -", then the currency symbols are removed
        neg2 == lead \/ Contains(c1, <<"$", "-">>) \/ Contains(c1, <<"$", " ", "-">>)
        c2 == Strip(RemoveChars(c1, CurrencySymbols))
        \* 163-166: a "-" left in front once the currency is gone
        neg3 == neg2 \/ StartsWith(c2, <<"-">>)
        c3 == IF StartsWith(c2, <<"-">>) THEN Tail(c2) ELSE c2
        \* 168-169
        c4 == RemoveChars(RemoveChars(c3, {","}), {" "})
        \* 172-174: parentheses
        paren == StartsWith(c4, <<"(">>) /\ EndsWith(c4, <<")">>)
        neg4 == neg3 \/ paren
        c5 == IF paren THEN SubSeq(c4, 2, Len(c4) - 1) ELSE c4
        \* 177-182: CR / DR suffixes
        cr == EndsWith(Upper(c5), <<"C", "R">>)
        dr == EndsWith(Upper(c5), <<"D", "R">>)
        neg5 == IF cr THEN FALSE ELSE IF dr THEN TRUE ELSE neg4
        c6 == IF cr \/ dr THEN SubSeq(c5, 1, Len(c5) - 2) ELSE c5
        \* 184-188
        v == PyFloat(c6)
    IN  IF amount_str0 = <<>> \/ c0 = <<>> \/ v = None THEN None
        ELSE IF neg5 THEN Some(-Abs(v[1])) ELSE Some(Abs(v[1]))

(***************************************************************************)
(* Amount tokens: a decimal number written in one sign convention, with    *)
(* an optional currency symbol and optional spacing.                       *)
(***************************************************************************)
Magnitudes ==
    { [text |-> <<"5">>, cents |-> 500],
      [text |-> <<"4", "5", ".", "5", "0">>, cents |-> 4550],
      [text |-> <<"1", "0", "0", ".", "0", "0">>, cents |-> 10000],
      [text |-> <<"1", "2", ".", "3", "4">>, cents |-> 1234],
      [text |-> <<"1", ",", "2", "3", "4", ".", "5", "6">>, cents |-> 123456] }

SignConventions == {"none", "minus", "plus", "paren", "CR", "DR", "cur_minus"}

TokenCurrencies == {"", "$", "€"}

Cur(c) == IF c = "" THEN <<>> ELSE <<c>>

Gap(sp) == IF sp THEN <<" ">> ELSE <<>>

\* The text of magnitude m written in convention conv with currency symbol c
\* (none when ""), sp telling whether the optional blank is written.
RenderAmount(conv, c, sp, m) ==
    CASE conv = "none" -> Cur(c) \o Gap(sp) \o m.text
      [] conv = "minus" -> <<"-">> \o Gap(sp) \o Cur(c) \o m.text
      [] conv = "plus" -> <<"+">> \o Cur(c) \o m.text
      [] conv = "paren" -> <<"(">> \o Cur(c) \o m.text \o <<")">>
      [] conv = "CR" -> Cur(c) \o m.text \o Gap(sp) \o <<"C", "R">>
      [] conv = "DR" -> Cur(c) \o m.text \o Gap(sp) \o <<"D", "R">>
      [] conv = "cur_minus" -> Cur(c) \o Gap(sp) \o <<"-">> \o m.text

AmountTokenSpecs ==
    { t \in [conv : SignConventions, cur : TokenCurrencies, sp : BOOLEAN,
             m : Magnitudes] :
        t.conv = "cur_minus" => t.cur # "" }

AmountTokens == { RenderAmount(t.conv, t.cur, t.sp, t.m) : t \in AmountTokenSpecs }

InitAmount ==
    /\ amount_str \in AmountTokens
    /\ amount_ret = None
    /\ amount_done = FALSE
    /\ IdleBut("amount")

ParseAmount ==
    /\ ~amount_done
    /\ amount_ret' = parse_amount(amount_str)
    /\ amount_done' = TRUE
    /\ UNCHANGED <<amount_str, recurringVars, ofxVars, parseVars, aiVars, retry>>

NextAmount == ParseAmount

SpecAmount == InitAmount /\ [][NextAmount]_vars

(***************************************************************************)
(* C3.  For every amount token made of a decimal number written in one of  *)
(* the supported sign conventions, parse_amount returns that number with a *)
(* negative sign exactly when the token has a leading "-", is enclosed in  *)
(* parentheses, ends in DR or has a "-" right after the currency symbol,   *)
(* and with a positive sign otherwise (leading "+", no sign, CR).          *)
(***************************************************************************)
NegativeConventions == {"minus", "paren", "DR", "cur_minus"}

ExpectedAmount(t) ==
    IF t.conv \in NegativeConventions THEN -t.m.cents ELSE t.m.cents

C3_AmountSign ==
    amount_done =>
        \A t \in AmountTokenSpecs :
            RenderAmount(t.conv, t.cur, t.sp, t.m) = amount_str
                => amount_ret = Some(ExpectedAmount(t))

\* "(45.50)" has been parsed to -45.50.
C3_Witness ==
    /\ amount_done
    /\ amount_str = <<"(", "4", "5", ".", "5", "0", ")">>
    /\ amount_ret = Some(-4550)

(***************************************************************************)
(* detect_recurring_pattern (categorizer.py 109-201).  A transaction is    *)
(* [description, merchant (Optional), amount (hundredths), date (a day     *)
(* number)], as budget_ai.py builds the dicts.                             *)
(***************************************************************************)
LowerChar(c) ==
    CASE c = "A" -> "a" [] c = "B" -> "b" [] c = "C" -> "c" [] c = "D" -> "d"
      [] c = "E" -> "e" [] c = "F" -> "f" [] c = "G" -> "g" [] c = "H" -> "h"
      [] c = "I" -> "i" [] c = "J" -> "j" [] c = "K" -> "k" [] c = "L" -> "l"
      [] c = "M" -> "m" [] c = "N" -> "n" [] c = "O" -> "o" [] c = "P" -> "p"
      [] c = "Q" -> "q" [] c = "R" -> "r" [] c = "S" -> "s" [] c = "T" -> "t"
      [] c = "U" -> "u" [] c = "V" -> "v" [] c = "W" -> "w" [] c = "X" -> "x"
      [] c = "Y" -> "y" [] c = "Z" -> "z"
      [] OTHER -> c

Lower(s) == [i \in 1..Len(s) |-> LowerChar(s[i])]

\* re.sub(r'[0-9#*\-_]+', '', ...): the characters removed from a key.
KeyNoise == Digits \cup {"#", "*", "-", "_"}

\* " ".join(s.split()): runs of whitespace become one blank, none at the ends.
RECURSIVE SquashWs(_)
SquashWs(s) ==
    IF Len(s) < 2 THEN s
    ELSE IF s[1] \in Whitespace /\ s[2] \in Whitespace THEN SquashWs(Tail(s))
    ELSE <<s[1]>> \o SquashWs(Tail(s))

CollapseWs(s) == SquashWs(Strip(s))

\* 133-138: the grouping key of a transaction.
MinKeyLen == 3

\* TxnKey, were the merchant left out of the key.
TxnKeyDescriptionOnly(txn) ==
    CollapseWs(Strip(RemoveChars(<<" ">> \o Lower(txn.description), KeyNoise)))

TxnKey(txn) ==
    LET desc == Lower(txn.description)
        merchant == IF txn.merchant # None /\ txn.merchant[1] # <<>>
                    THEN Lower(txn.merchant[1]) ELSE <<>>
    IN  CollapseWs(Strip(RemoveChars(merchant \o <<" ">> \o desc, KeyNoise)))

Grouped(txn) == Len(TxnKey(txn)) >= MinKeyLen

\* 129-141: the keys of the dict groups, in insertion order.
RECURSIVE GroupKeys(_)
GroupKeys(txns) ==
    IF txns = <<>> THEN <<>>
    ELSE LET front == SubSeq(txns, 1, Len(txns) - 1)
             last == txns[Len(txns)]
             keys == GroupKeys(front)
         IN  IF Grouped(last) /\ \A i \in 1..Len(keys) : keys[i] # TxnKey(last)
             THEN Append(keys, TxnKey(last))
             ELSE keys

GroupOf(txns, key) == SelectSeq(txns, LAMBDA t : Grouped(t) /\ TxnKey(t) = key)

RECURSIVE SeqSum(_)
SeqSum(s) == IF s = <<>> THEN 0 ELSE Head(s) + SeqSum(Tail(s))

SeqMax(s) == CHOOSE x \in {s[i] : i \in 1..Len(s)} : \A j \in 1..Len(s) : s[j] <= x

SeqMin(s) == CHOOSE x \in {s[i] : i \in 1..Len(s)} : \A j \in 1..Len(s) : s[j] >= x

\* sorted(dates)
RECURSIVE InsertAsc(_, _)
InsertAsc(s, x) ==
    IF s = <<>> THEN <<x>>
    ELSE IF x < Head(s) THEN <<x>> \o s
    ELSE <<Head(s)>> \o InsertAsc(Tail(s), x)

RECURSIVE SortedAsc(_)
SortedAsc(s) ==
    IF s = <<>> THEN <<>>
    ELSE InsertAsc(SortedAsc(SubSeq(s, 1, Len(s) - 1)), s[Len(s)])

\* 166-169: the day gaps between consecutive sorted dates.
Intervals(dates) == [i \in 1..(Len(dates) - 1) |-> dates[i + 1] - dates[i]]

\* 173-183: sum / n classified without division: lo <= sum / n <= hi.
InBand(sum, n, lo, hi) == lo * n <= sum /\ sum <= hi * n

\* A mutant of Classify: no upper end of the weekly band.
ClassifyOpenWeekly(sum, n) ==
    IF InBand(sum, n, 25, 35) THEN "monthly"
    ELSE IF InBand(sum, n, 350, 380) THEN "yearly"
    ELSE IF InBand(sum, n, 12, 16) THEN "biweekly"
    ELSE IF 6 * n <= sum THEN "weekly"
    ELSE "irregular"

\* A mutant of Classify: the monthly band starts at 30 days.
ClassifyNarrowMonthly(sum, n) ==
    IF InBand(sum, n, 30, 35) THEN "monthly"
    ELSE IF InBand(sum, n, 350, 380) THEN "yearly"
    ELSE IF InBand(sum, n, 12, 16) THEN "biweekly"
    ELSE IF InBand(sum, n, 6, 8) THEN "weekly"
    ELSE "irregular"

Classify(sum, n) ==
    IF InBand(sum, n, 25, 35) THEN "monthly"
    ELSE IF InBand(sum, n, 350, 380) THEN "yearly"
    ELSE IF InBand(sum, n, 12, 16) THEN "biweekly"
    ELSE IF InBand(sum, n, 6, 8) THEN "weekly"
    ELSE "irregular"

\* round(sum / n, 2) on hundredths: to the nearest, a half to the even one.
RoundDiv(sum, n) ==
    LET q == sum \div n
        r == sum % n
    IN  IF 2 * r < n THEN q
        ELSE IF 2 * r > n THEN q + 1
        ELSE IF q % 2 = 0 THEN q ELSE q + 1

\* 187: max(txns, key=date) is the first transaction of the latest date.
LatestTxn(txns) ==
    LET top == SeqMax([i \in 1..Len(txns) |-> txns[i].date])
        at == CHOOSE i \in 1..Len(txns) :
                  txns[i].date = top /\ \A j \in 1..(i - 1) : txns[j].date # top
    IN  txns[at]

NameLen == 50

Prefix(s, n) == SubSeq(s, 1, IF Len(s) < n THEN Len(s) ELSE n)

\* 145-196: the candidate of one group, or None.  tol_pct is the tolerance
\* in percent; variance / avg > tol is compared without division.
GroupCandidate(txns, min_occ, tol_pct) ==
    LET amounts == [i \in 1..Len(txns) |-> Abs(txns[i].amount)]
        total == SeqSum(amounts)
        n == Len(txns)
        dates == SortedAsc([i \in 1..Len(txns) |-> txns[i].date])
        intervals == Intervals(dates)
        frequency == Classify(SeqSum(intervals), Len(intervals))
        latest == LatestTxn(txns)
    IN  IF n < min_occ THEN None
        ELSE IF total = 0 THEN None
        ELSE IF (SeqMax(amounts) - SeqMin(amounts)) * n * 100 > tol_pct * total THEN None
        ELSE IF Len(dates) < 2 THEN None
        ELSE IF frequency = "irregular" THEN None
        ELSE Some([name |-> IF latest.merchant # None /\ latest.merchant[1] # <<>>
                            THEN latest.merchant[1]
                            ELSE Prefix(latest.description, NameLen),
                   amount |-> RoundDiv(total, n),
                   frequency |-> frequency,
                   occurrences |-> n,
                   last_date |-> dates[Len(dates)],
                   sample_description |-> latest.description])

\* 143-196: the candidates in the order of the groups.
RECURSIVE Candidates(_, _, _, _)
Candidates(txns, keys, min_occ, tol_pct) ==
    IF keys = <<>> THEN <<>>
    ELSE GroupCandidate(GroupOf(txns, Head(keys)), min_occ, tol_pct)
             \o Candidates(txns, Tail(keys), min_occ, tol_pct)

\* 199: list.sort(key=amount, reverse=True) is stable.
RECURSIVE InsertByAmountDesc(_, _)
InsertByAmountDesc(s, c) ==
    IF s = <<>> THEN <<c>>
    ELSE IF c.amount > s[Len(s)].amount
         THEN Append(InsertByAmountDesc(SubSeq(s, 1, Len(s) - 1), c), s[Len(s)])
         ELSE Append(s, c)

RECURSIVE SortByAmountDesc(_)
SortByAmountDesc(s) ==
    IF s = <<>> THEN <<>>
    ELSE InsertByAmountDesc(SortByAmountDesc(SubSeq(s, 1, Len(s) - 1)), s[Len(s)])

detect_recurring_pattern(txns, min_occ, tol_pct) ==
    SortByAmountDesc(Candidates(txns, GroupKeys(txns), min_occ, tol_pct))

DefaultMinOccurrences == 2

DefaultTolerancePct == 10

(***************************************************************************)
(* The inputs of detect_recurring_pattern.                                 *)
(***************************************************************************)
MaxTxns == 3

\* The key of "NFX" is "nfx"; the key of "AB" is too short to be grouped.
TxnDescriptions == { <<"N", "F", "X">>, <<"A", "B">> }

TxnAmounts == {-1500, 1600}

TxnDates == {0, 7, 30, 100, 365}

TxnValues ==
    [description : TxnDescriptions, merchant : {None}, amount : TxnAmounts,
     date : TxnDates]

SeqsUpTo(S, n) == UNION { [1..k -> S] : k \in 0..n }

MinOccurrencesValues == {1, 2, 3}

TolerancePctValues == {5, 10}

InitRecurring ==
    /\ transactions \in SeqsUpTo(TxnValues, MaxTxns)
    /\ min_occurrences \in MinOccurrencesValues
    /\ amount_tolerance \in TolerancePctValues
    /\ detected_subscriptions = <<>>
    /\ recurring_done = FALSE
    /\ IdleBut("recurring")

DetectRecurring ==
    /\ ~recurring_done
    /\ detected_subscriptions' =
           detect_recurring_pattern(transactions, min_occurrences, amount_tolerance)
    /\ recurring_done' = TRUE
    /\ UNCHANGED <<transactions, min_occurrences, amount_tolerance, amountVars, ofxVars, parseVars, aiVars, retry>>

NextRecurring == DetectRecurring

SpecRecurring == InitRecurring /\ [][NextRecurring]_vars

(***************************************************************************)
(* C9.  Every candidate returned by detect_recurring_pattern comes from a  *)
(* group of at least min_occurrences transactions, whose (max - min) /     *)
(* mean of absolute amounts is at most the tolerance and whose mean gap in *)
(* days between consecutive dates lies in the band of the reported         *)
(* frequency; a single transaction, or two transactions 100 days apart,    *)
(* yield no candidate.  The mean of the consecutive gaps of the sorted     *)
(* dates is (latest - earliest) / (count - 1).                             *)
(***************************************************************************)
BandOf(frequency) ==
    CASE frequency = "weekly" -> <<6, 8>>
      [] frequency = "biweekly" -> <<12, 16>>
      [] frequency = "monthly" -> <<25, 35>>
      [] frequency = "yearly" -> <<350, 380>>
      [] OTHER -> <<1, 0>>

Members(key) ==
    { j \in 1..Len(transactions) : TxnKey(transactions[j]) = key }

JustifiedBy(c, key) ==
    LET idx == Members(key)
        abs == [j \in 1..Len(transactions) |->
                   IF j \in idx THEN Abs(transactions[j].amount) ELSE 0]
        hi == CHOOSE x \in {abs[j] : j \in idx} : \A j \in idx : abs[j] <= x
        lo == CHOOSE x \in {abs[j] : j \in idx} : \A j \in idx : abs[j] >= x
        ds == {transactions[j].date : j \in idx}
        late == CHOOSE x \in ds : \A y \in ds : y <= x
        early == CHOOSE x \in ds : \A y \in ds : y >= x
        n == Cardinality(idx)
    IN  /\ Len(key) >= 3
        /\ n >= min_occurrences
        /\ n >= 2
        /\ c.occurrences = n
        /\ (hi - lo) * n * 100 <= amount_tolerance * SeqSum(abs)
        /\ BandOf(c.frequency)[1] * (n - 1) <= late - early
        /\ late - early <= BandOf(c.frequency)[2] * (n - 1)

C9_CandidatesJustified ==
    recurring_done =>
        /\ \A i \in 1..Len(detected_subscriptions) :
               \E j \in 1..Len(transactions) :
                   JustifiedBy(detected_subscriptions[i], TxnKey(transactions[j]))
        /\ Len(transactions) = 1 => detected_subscriptions = <<>>
        /\ (/\ Len(transactions) = 2
            /\ Abs(transactions[1].date - transactions[2].date) = 100)
               => detected_subscriptions = <<>>

\* Three transactions on days 0, 7 and 30 (mean gap 15) gave a biweekly candidate.
C9_Witness ==
    /\ recurring_done
    /\ Len(transactions) = 3
    /\ Len(detected_subscriptions) = 1
    /\ detected_subscriptions[1].frequency = "biweekly"
    /\ detected_subscriptions[1].occurrences = 3

(***************************************************************************)
(* Transactions of one description and one amount on the 1st of n          *)
(* consecutive months of 2023-2024, each with or without a merchant, in    *)
(* ascending or descending order.                                          *)
(***************************************************************************)
MaxMonths == 4

MonthDays ==
    <<31, 28, 31, 30, 31, 30, 31, 31, 30, 31, 30, 31,
      31, 29, 31, 30, 31, 30, 31, 31, 30, 31, 30, 31>>

\* The day number of the 1st of month i (1 = January 2023).
FirstOfMonth(i) == SeqSum(SubSeq(MonthDays, 1, i - 1))

\* The key of "NFX.C" is "nfx.c"; of "AB", "ab" (too short); of "7-11", empty.
MonthlyDescriptions ==
    { <<"N", "F", "X", ".", "C">>, <<"A", "B">>, <<"7", "-", "1", "1">> }

MonthlyAmounts == {-1599, 2500, 0}

MonthlyMerchants == {None, Some(<<"M">>)}

MonthlyTxns(desc, merchants, amount, start, n, ascending) ==
    [i \in 1..n |->
        [description |-> desc,
         merchant |-> merchants[i],
         amount |-> amount,
         date |-> FirstOfMonth(start + (IF ascending THEN i - 1 ELSE n - i))]]

InitMonthly ==
    /\ \E n \in 2..MaxMonths :
       \E desc \in MonthlyDescriptions, amount \in MonthlyAmounts :
       \E merchants \in [1..n -> MonthlyMerchants] :
       \E start \in 1..(Len(MonthDays) - n + 1), ascending \in BOOLEAN :
           transactions = MonthlyTxns(desc, merchants, amount, start, n, ascending)
    /\ min_occurrences = DefaultMinOccurrences
    /\ amount_tolerance = DefaultTolerancePct
    /\ detected_subscriptions = <<>>
    /\ recurring_done = FALSE
    /\ IdleBut("recurring")

SpecMonthly == InitMonthly /\ [][NextRecurring]_vars

(***************************************************************************)
(* C10 as stated: any n >= 2 transactions with the same description and    *)
(* amount on the 1st of n consecutive months give exactly one candidate:   *)
(* monthly, n occurrences, the absolute common amount.                     *)
(***************************************************************************)
OneMonthlyCandidate ==
    /\ Len(detected_subscriptions) = 1
    /\ detected_subscriptions[1].frequency = "monthly"
    /\ detected_subscriptions[1].occurrences = Len(transactions)
    /\ detected_subscriptions[1].amount = Abs(transactions[1].amount)

C10_Original == recurring_done => OneMonthlyCandidate

(***************************************************************************)
(* C10 amended: the same, for transactions that also share their merchant  *)
(* (or have none), whose grouping key has at least 3 characters and whose  *)
(* common amount is not zero.                                              *)
(***************************************************************************)
C10_MonthlyCandidate ==
    (/\ recurring_done
     /\ \A i \in 1..Len(transactions) : transactions[i].merchant = transactions[1].merchant
     /\ Len(TxnKey(transactions[1])) >= 3
     /\ transactions[1].amount # 0)
        => OneMonthlyCandidate

\* Four charges of -15.99 from January to April 2024 gave one monthly
\* candidate of 15.99 with 4 occurrences.
C10_Witness ==
    /\ recurring_done
    /\ Len(transactions) = 4
    /\ transactions[1].date = FirstOfMonth(13)
    /\ transactions[1].amount = -1599
    /\ Len(detected_subscriptions) = 1
    /\ detected_subscriptions[1].amount = 1599
    /\ detected_subscriptions[1].frequency = "monthly"
    /\ detected_subscriptions[1].occurrences = 4

(***************************************************************************)
(* parse_ofx_statement (statement_parser.py 508-582).  The content is a    *)
(* list of tags: [tag |-> "STMTTRN"] and [tag |-> "/STMTTRN"] open and     *)
(* close a transaction block, [tag |-> "/BANKTRANLIST"] ends the list, and *)
(* a field tag carries the text that follows it up to the next "<" or      *)
(* line end.                                                               *)
(***************************************************************************)
OpenTag == [tag |-> "STMTTRN", text |-> <<>>]

CloseTag == [tag |-> "/STMTTRN", text |-> <<>>]

EndListTag == [tag |-> "/BANKTRANLIST", text |-> <<>>]

Field(name, text) == [tag |-> name, text |-> text]

\* The least position of s at or after from whose tag is one of tags and,
\* with_text, whose text is not empty; 0 when there is none.
FirstTag(s, from, tags, with_text) ==
    LET hits == { i \in from..Len(s) :
                     s[i].tag \in tags /\ (with_text => s[i].text # <<>>) }
    IN  IF hits = {} THEN 0 ELSE CHOOSE i \in hits : \A j \in hits : i <= j

IsOpen(t) == t.tag = "STMTTRN"

IsClose(t) == t.tag = "/STMTTRN"

\* 516-517: findall of <STMTTRN>(.*?)</STMTTRN> from position from: each
\* match runs from an opening tag to the first closing tag after it, and the
\* scan goes on after that closing tag.
RECURSIVE ClosedMatches(_, _)
ClosedMatches(content, from) ==
    LET open == FirstTag(content, from, {"STMTTRN"}, FALSE)
        close == IF open = 0 THEN 0 ELSE FirstTag(content, open + 1, {"/STMTTRN"}, FALSE)
    IN  IF open = 0 \/ close = 0 THEN <<>>
        ELSE <<SubSeq(content, open + 1, close - 1)>>
                 \o ClosedMatches(content, close + 1)

\* 521-522: findall of <STMTTRN>(.*?)(?=<STMTTRN>|</BANKTRANLIST>|$): each
\* match runs from an opening tag up to the next opening tag, the end of the
\* list or the end of the content.
RECURSIVE UnclosedMatches(_, _)
UnclosedMatches(content, from) ==
    LET open == FirstTag(content, from, {"STMTTRN"}, FALSE)
        stop == IF open = 0 THEN 0 ELSE FirstTag(content, open + 1, {"STMTTRN", "/BANKTRANLIST"}, FALSE)
        end == IF stop = 0 THEN Len(content) + 1 ELSE stop
    IN  IF open = 0 THEN <<>>
        ELSE <<SubSeq(content, open + 1, end - 1)>> \o UnclosedMatches(content, end)

\* 516-522: the second scan runs only when the first finds nothing.
TxnMatches(content) ==
    IF ClosedMatches(content, 1) # <<>> THEN ClosedMatches(content, 1)
    ELSE UnclosedMatches(content, 1)

\* 539-542: get_field: the text of the first tag of that name that has
\* text, stripped; None when there is none.
GetField(txn_content, name) ==
    LET at == FirstTag(txn_content, 1, {name}, TRUE)
    IN  IF at = 0 THEN None ELSE Some(Strip(txn_content[at].text))

DaysInMonth(y, m) ==
    IF m = 2 THEN (IF y % 4 = 0 /\ (y % 100 # 0 \/ y % 400 = 0) THEN 29 ELSE 28)
    ELSE IF m \in {4, 6, 9, 11} THEN 30 ELSE 31

ValidDate(y, m, d) == y >= 1 /\ m \in 1..12 /\ d \in 1..DaysInMonth(y, m)

\* 549-555: datetime.strptime(date_str[:8], '%Y%m%d'), None for a ValueError
\* or a text shorter than 8.
OfxDate(date_str) ==
    LET d8 == SubSeq(date_str, 1, 8)
        y == DigitsVal(SubSeq(d8, 1, 4))
        m == DigitsVal(SubSeq(d8, 5, 6))
        d == DigitsVal(SubSeq(d8, 7, 8))
    IN  IF Len(date_str) >= 8 /\ AllDigits(d8) /\ ValidDate(y, m, d)
        THEN Some([y |-> y, m |-> m, d |-> d])
        ELSE None

Unknown == <<"U", "n", "k", "n", "o", "w", "n">>

\* ParsedTransaction (14-23); confidence in percent.
Txn(date, description, amount, confidence) ==
    [date |-> date, description |-> description, amount |-> amount,
     confidence |-> confidence]

\* 537-574: the transaction of one block, or None when the block is skipped.
OfxTxn(txn_content) ==
    LET date_str == GetField(txn_content, "DTPOSTED")
        date == IF date_str = None THEN None ELSE OfxDate(date_str[1])
        amount_str0 == GetField(txn_content, "TRNAMT")
        amount == IF amount_str0 = None THEN None ELSE parse_amount(amount_str0[1])
        name == GetField(txn_content, "NAME")
        memo == GetField(txn_content, "MEMO")
        description == IF name # None /\ name[1] # <<>> THEN name[1]
                       ELSE IF memo # None /\ memo[1] # <<>> THEN memo[1]
                       ELSE Unknown
    IN  IF date_str = None \/ date_str[1] = <<>> \/ date = None THEN None
        ELSE IF amount_str0 = None \/ amount_str0[1] = <<>> \/ amount = None THEN None
        ELSE Some(Txn(date[1], description, amount[1], 100))

RECURSIVE OfxTxns(_)
OfxTxns(matches) ==
    IF matches = <<>> THEN <<>>
    ELSE OfxTxn(Head(matches)) \o OfxTxns(Tail(matches))

parse_ofx_statement(content) ==
    LET matches == TxnMatches(content)
        org == GetField(content, "ORG")
        txns == OfxTxns(matches)
        base == [NewResult EXCEPT !.parser_used = "ofx"]
    IN  IF matches = <<>>
        THEN [base EXCEPT !.errors = <<"No transactions found in OFX file">>]
        ELSE [base EXCEPT
                 !.bank_detected = org,
                 !.transactions = txns,
                 !.errors = IF txns = <<>>
                            THEN <<"No valid transactions parsed from OFX">>
                            ELSE <<>>]

(***************************************************************************)
(* OFX documents: up to MaxBlocks transaction blocks, each closed or not,  *)
(* then the end of the list or nothing.                                    *)
(***************************************************************************)
MaxBlocks == 2

Text20240115 == <<"2", "0", "2", "4", "0", "1", "1", "5">>

Text20240116 == <<"2", "0", "2", "4", "0", "1", "1", "6">>

Text2024011 == <<"2", "0", "2", "4", "0", "1", "1">>

OfxDateTexts == {Text20240115, Text20240116, Text2024011}

TextMinus4599 == <<"-", "4", "5", ".", "9", "9">>

OfxAmountTexts == {TextMinus4599, <<"x">>}

TextAmazon == <<"A", "M", "A", "Z", "O", "N">>

TextMemo == <<"m", "e", "m", "o">>

\* A block has a NAME, only a MEMO, or neither.
OfxNamings == {"name", "memo", "none"}

OfxBlocks ==
    [closed : BOOLEAN, dtposted : OfxDateTexts, trnamt : OfxAmountTexts,
     naming : OfxNamings]

BlockTags(b) ==
    <<OpenTag, Field("DTPOSTED", b.dtposted), Field("TRNAMT", b.trnamt)>>
        \o (IF b.naming = "name" THEN <<Field("NAME", TextAmazon)>>
            ELSE IF b.naming = "memo" THEN <<Field("MEMO", TextMemo)>>
            ELSE <<>>)
        \o (IF b.closed THEN <<CloseTag>> ELSE <<>>)

RECURSIVE BlocksTags(_)
BlocksTags(blocks) ==
    IF blocks = <<>> THEN <<>> ELSE BlockTags(Head(blocks)) \o BlocksTags(Tail(blocks))

OfxDocument(blocks, end_list) ==
    BlocksTags(blocks) \o (IF end_list THEN <<EndListTag>> ELSE <<>>)

InitOfx ==
    /\ \E blocks \in SeqsUpTo(OfxBlocks, MaxBlocks), end_list \in BOOLEAN :
           ofx_content = OfxDocument(blocks, end_list)
    /\ ofx_result = NewResult
    /\ ofx_done = FALSE
    /\ IdleBut("ofx")

ParseOfx ==
    /\ ~ofx_done
    /\ ofx_result' = parse_ofx_statement(ofx_content)
    /\ ofx_done' = TRUE
    /\ UNCHANGED <<ofx_content, amountVars, recurringVars, parseVars, aiVars, retry>>

NextOfx == ParseOfx

SpecOfx == InitOfx /\ [][NextOfx]_vars

(***************************************************************************)
(* C8.  The markup parser emits exactly one transaction per transaction    *)
(* block that has a valid 8-digit posted date and a parsable amount, in    *)
(* document order, whether a block is ended by its closing tag, by the     *)
(* next opening tag or by the end of the list, documents that mix closed   *)
(* and unclosed blocks included.  A block is read here as the tags from an *)
(* opening tag to the first closing tag, opening tag or end of list.       *)
(***************************************************************************)
BlockEnds == {"STMTTRN", "/STMTTRN", "/BANKTRANLIST"}

RECURSIVE BlocksOf(_, _)
BlocksOf(content, from) ==
    LET open == FirstTag(content, from, {"STMTTRN"}, FALSE)
        stop == IF open = 0 THEN 0 ELSE FirstTag(content, open + 1, BlockEnds, FALSE)
        end == IF stop = 0 THEN Len(content) + 1 ELSE stop
    IN  IF open = 0 THEN <<>>
        ELSE <<SubSeq(content, open + 1, end - 1)>> \o BlocksOf(content, end)

C8_OneTxnPerBlock ==
    ofx_done => ofx_result.transactions = OfxTxns(BlocksOf(ofx_content, 1))

(***************************************************************************)
(* Dates (statement_parser.py 41-124).  A format of the code is kept as    *)
(* its three fields and the two literal texts between them:                *)
(* "%d/%m/%Y" is Fmt("d", "/", "m", "/", "Y").  A date is [y, m, d].       *)
(***************************************************************************)
Fmt(f1, l1, f2, l2, f3) == [f1 |-> f1, l1 |-> l1, f2 |-> f2, l2 |-> l2, f3 |-> f3]

\* 41-47
DATE_FORMATS_DMY ==
    <<Fmt("d", <<"/">>, "m", <<"/">>, "Y"),
      Fmt("d", <<"-">>, "m", <<"-">>, "Y"),
      Fmt("d", <<".">>, "m", <<".">>, "Y"),
      Fmt("d", <<"/">>, "m", <<"/">>, "y"),
      Fmt("d", <<"-">>, "m", <<"-">>, "y")>>

\* 49-53
DATE_FORMATS_MDY ==
    <<Fmt("m", <<"/">>, "d", <<"/">>, "Y"),
      Fmt("m", <<"/">>, "d", <<"/">>, "y"),
      Fmt("m", <<"-">>, "d", <<"-">>, "Y")>>

\* 55-62
DATE_FORMATS_OTHER ==
    <<Fmt("Y", <<"-">>, "m", <<"-">>, "d"),
      Fmt("Y", <<"/">>, "m", <<"/">>, "d"),
      Fmt("b", <<" ">>, "d", <<",", " ">>, "Y"),
      Fmt("B", <<" ">>, "d", <<",", " ">>, "Y"),
      Fmt("d", <<" ">>, "b", <<" ">>, "Y"),
      Fmt("d", <<" ">>, "B", <<" ">>, "Y")>>

\* The month names of the C locale, lower case: %b and %B match them
\* whatever the case.
MonthAbbreviations ==
    <<
      <<"j", "a", "n">>, <<"f", "e", "b">>, <<"m", "a", "r">>,
      <<"a", "p", "r">>, <<"m", "a", "y">>, <<"j", "u", "n">>,
      <<"j", "u", "l">>, <<"a", "u", "g">>, <<"s", "e", "p">>,
      <<"o", "c", "t">>, <<"n", "o", "v">>, <<"d", "e", "c">>
    >>

MonthNames ==
    <<
      <<"j", "a", "n", "u", "a", "r", "y">>, <<"f", "e", "b", "r", "u", "a", "r", "y">>, <<"m", "a", "r", "c", "h">>,
      <<"a", "p", "r", "i", "l">>, <<"m", "a", "y">>, <<"j", "u", "n", "e">>,
      <<"j", "u", "l", "y">>, <<"a", "u", "g", "u", "s", "t">>, <<"s", "e", "p", "t", "e", "m", "b", "e", "r">>,
      <<"o", "c", "t", "o", "b", "e", "r">>, <<"n", "o", "v", "e", "m", "b", "e", "r">>, <<"d", "e", "c", "e", "m", "b", "e", "r">>
    >>

\* The least position of p in s, 0 when s does not contain p.
IndexOf(s, p) ==
    LET hits == { i \in 1..(Len(s) - Len(p) + 1) : SubSeq(s, i, i + Len(p) - 1) = p }
    IN  IF hits = {} THEN 0 ELSE CHOOSE i \in hits : \A j \in hits : i <= j

PositionIn(names, t) ==
    LET hits == { i \in 1..Len(names) : names[i] = Lower(t) }
    IN  IF hits = {} THEN 0 ELSE CHOOSE i \in hits : TRUE

\* The value of one strptime field, 0 when the text does not match the
\* directive: %d is 1..31 and %m is 1..12 in one or two digits, %Y is four
\* digits, %y is two digits (00-68 are 2000-2068, 69-99 are 1969-1999).
FieldValue(f, t) ==
    LET n == IF t # <<>> /\ AllDigits(t) THEN DigitsVal(t) ELSE 0
    IN  CASE f = "d" -> IF Len(t) \in 1..2 /\ n \in 1..31 THEN n ELSE 0
          [] f = "m" -> IF Len(t) \in 1..2 /\ n \in 1..12 THEN n ELSE 0
          [] f = "Y" -> IF Len(t) = 4 /\ AllDigits(t) THEN n ELSE 0
          [] f = "y" -> IF Len(t) = 2 /\ AllDigits(t)
                        THEN (IF n < 69 THEN 2000 + n ELSE 1900 + n) ELSE 0
          [] f = "b" -> PositionIn(MonthAbbreviations, t)
          [] f = "B" -> PositionIn(MonthNames, t)

FieldOf(fmt, f, t1, t2, t3) ==
    IF fmt.f1 \in f THEN FieldValue(fmt.f1, t1)
    ELSE IF fmt.f2 \in f THEN FieldValue(fmt.f2, t2)
    ELSE FieldValue(fmt.f3, t3)

\* datetime.strptime(s, fmt), None for a ValueError: the text is the three
\* fields with the literals between them and nothing else, and the fields
\* make a calendar date.
Strptime(s, fmt) ==
    LET p1 == IndexOf(s, fmt.l1)
        t1 == SubSeq(s, 1, p1 - 1)
        r1 == SubSeq(s, p1 + Len(fmt.l1), Len(s))
        p2 == IndexOf(r1, fmt.l2)
        t2 == SubSeq(r1, 1, p2 - 1)
        t3 == SubSeq(r1, p2 + Len(fmt.l2), Len(r1))
        y == FieldOf(fmt, {"Y", "y"}, t1, t2, t3)
        m == FieldOf(fmt, {"m", "b", "B"}, t1, t2, t3)
        d == FieldOf(fmt, {"d"}, t1, t2, t3)
    IN  IF p1 = 0 \/ p2 = 0 THEN None
        ELSE IF y = 0 \/ m = 0 \/ d = 0 \/ ~ValidDate(y, m, d) THEN None
        ELSE Some([y |-> y, m |-> m, d |-> d])

\* 109-114: the first format that parses wins.
RECURSIVE TryFormats(_, _)
TryFormats(s, formats) ==
    IF formats = <<>> THEN None
    ELSE IF Strptime(s, Head(formats)) # None THEN Strptime(s, Head(formats))
    ELSE TryFormats(s, Tail(formats))

\* 104-107
FormatsToTry(hint) ==
    IF hint = "DMY"
    THEN DATE_FORMATS_DMY \o DATE_FORMATS_OTHER \o DATE_FORMATS_MDY
    ELSE DATE_FORMATS_MDY \o DATE_FORMATS_OTHER \o DATE_FORMATS_DMY

\* 93-114: parse_date(date_str, format_hint) when the module-level
\* _detected_date_format is detected.
parse_date(date_str, format_hint, detected) ==
    LET s == Strip(date_str)
        hint == IF format_hint # NoHint THEN format_hint
                ELSE IF detected # NoHint THEN detected ELSE "DMY"
    IN  IF s = <<>> THEN None ELSE TryFormats(s, FormatsToTry(hint))

\* int(t): optional sign and digits, white space around allowed; None ("")
\* for a ValueError.
PyInt(t) ==
    LET u == Strip(t)
        v == IF u # <<>> /\ Head(u) \in {"+", "-"} THEN Tail(u) ELSE u
        n == DigitsVal(v)
    IN  IF v = <<>> \/ ~AllDigits(v) THEN None
        ELSE IF u # <<>> /\ Head(u) = "-" THEN Some(-n) ELSE Some(n)

DateSeparators == {"/", "-", "."}

\* The first position at or after from of a character of chars, Len(s) + 1
\* when there is none.
NextOf(s, from, chars) ==
    LET hits == { i \in from..Len(s) : s[i] \in chars }
    IN  IF hits = {} THEN Len(s) + 1 ELSE CHOOSE i \in hits : \A j \in hits : i <= j

\* 74-80: the first two parts of re.split(r'[/\-.]', date_str) as integers;
\* None when there are fewer than two parts or int() raises.
LeadingParts(date_str) ==
    LET s == Strip(date_str)
        p1 == NextOf(s, 1, DateSeparators)
        p2 == NextOf(s, p1 + 1, DateSeparators)
        first == PyInt(SubSeq(s, 1, p1 - 1))
        second == PyInt(SubSeq(s, p1 + 1, p2 - 1))
    IN  IF p1 > Len(s) \/ first = None \/ second = None THEN None
        ELSE Some([first |-> first[1], second |-> second[1]])

\* DateEvidence that trusts only the first part.
DateEvidenceFirstPart(date_str) ==
    LET parts == LeadingParts(date_str)
    IN  IF parts = None THEN NoHint
        ELSE IF parts[1].first > 12 THEN "DMY"
        ELSE "MDY"

\* 81-86: what one date string says: "DMY", "MDY" or "" (nothing).
DateEvidence(date_str) ==
    LET parts == LeadingParts(date_str)
    IN  IF parts = None THEN NoHint
        ELSE IF parts[1].first > 12 THEN "DMY"
        ELSE IF parts[1].second > 12 THEN "MDY"
        ELSE NoHint

\* 68-90
RECURSIVE detect_date_format(_)
detect_date_format(date_strings) ==
    IF date_strings = <<>> THEN "DMY"
    ELSE IF DateEvidence(Head(date_strings)) # NoHint THEN DateEvidence(Head(date_strings))
    ELSE detect_date_format(Tail(date_strings))

\* rows[:20] of lines 121 and 271.
SampleRows == 20

FirstRows(rows, n) == SubSeq(rows, 1, IF Len(rows) < n THEN Len(rows) ELSE n)

\* Columns are numbered from 1 here (from 0 in the code); 0 is None.
NoCol == 0

\* DateStrings, were every row sampled.
DateStringsAllRows(rows, date_col) ==
    LET sample == SelectSeq(rows, LAMBDA row : date_col <= Len(row))
    IN  [i \in 1..Len(sample) |-> sample[i][date_col]]

\* 120-124: the value set_date_format_hint stores in _detected_date_format.
DateStrings(rows, date_col) ==
    LET sample == SelectSeq(FirstRows(rows, SampleRows), LAMBDA row : date_col <= Len(row))
    IN  [i \in 1..Len(sample) |-> sample[i][date_col]]

set_date_format_hint(rows, date_col) == detect_date_format(DateStrings(rows, date_col))

(***************************************************************************)
(* The CSV parser (196-501).  The content is kept as the rows csv.reader   *)
(* makes of it; a cell is a text.                                          *)
(***************************************************************************)
Config_chase ==
    [
     date_columns |->
         <<<<"T", "r", "a", "n", "s", "a", "c", "t", "i", "o", "n", " ", "D", "a", "t", "e">>,
           <<"P", "o", "s", "t", "i", "n", "g", " ", "D", "a", "t", "e">>,
           <<"D", "a", "t", "e">>>>,
     description_columns |->
         <<<<"D", "e", "s", "c", "r", "i", "p", "t", "i", "o", "n">>,
           <<"M", "e", "r", "c", "h", "a", "n", "t">>>>,
     amount_columns |->
         <<<<"A", "m", "o", "u", "n", "t">>>>,
     debit_columns |->
         <<<<"D", "e", "b", "i", "t">>>>,
     credit_columns |->
         <<<<"C", "r", "e", "d", "i", "t">>>>
    ]

Config_bank_of_america ==
    [
     date_columns |->
         <<<<"D", "a", "t", "e">>,
           <<"P", "o", "s", "t", "e", "d", " ", "D", "a", "t", "e">>>>,
     description_columns |->
         <<<<"D", "e", "s", "c", "r", "i", "p", "t", "i", "o", "n">>,
           <<"P", "a", "y", "e", "e">>>>,
     amount_columns |->
         <<<<"A", "m", "o", "u", "n", "t">>>>,
     debit_columns |->
         <<>>,
     credit_columns |->
         <<>>
    ]

Config_wells_fargo ==
    [
     date_columns |->
         <<<<"D", "a", "t", "e">>>>,
     description_columns |->
         <<<<"D", "e", "s", "c", "r", "i", "p", "t", "i", "o", "n">>>>,
     amount_columns |->
         <<<<"A", "m", "o", "u", "n", "t">>>>,
     debit_columns |->
         <<>>,
     credit_columns |->
         <<>>
    ]

Config_generic ==
    [
     date_columns |->
         <<<<"D", "a", "t", "e">>,
           <<"T", "r", "a", "n", "s", " ", "D", "a", "t", "e">>,
           <<"T", "r", "a", "n", "s", "a", "c", "t", "i", "o", "n", " ", "D", "a", "t", "e">>,
           <<"P", "o", "s", "t", "e", "d">>,
           <<"P", "o", "s", "t", " ", "D", "a", "t", "e">>>>,
     description_columns |->
         <<<<"D", "e", "s", "c", "r", "i", "p", "t", "i", "o", "n">>,
           <<"M", "e", "m", "o">>,
           <<"D", "e", "t", "a", "i", "l", "s">>,
           <<"P", "a", "y", "e", "e">>,
           <<"N", "a", "m", "e">>,
           <<"M", "e", "r", "c", "h", "a", "n", "t">>>>,
     amount_columns |->
         <<<<"A", "m", "o", "u", "n", "t">>,
           <<"T", "o", "t", "a", "l">>,
           <<"V", "a", "l", "u", "e">>>>,
     debit_columns |->
         <<<<"D", "e", "b", "i", "t">>,
           <<"W", "i", "t", "h", "d", "r", "a", "w", "a", "l">>,
           <<"W", "i", "t", "h", "d", "r", "a", "w", "a", "l", "s">>,
           <<"O", "u", "t", "f", "l", "o", "w">>>>,
     credit_columns |->
         <<<<"C", "r", "e", "d", "i", "t">>,
           <<"D", "e", "p", "o", "s", "i", "t">>,
           <<"D", "e", "p", "o", "s", "i", "t", "s">>,
           <<"I", "n", "f", "l", "o", "w">>>>
    ]

\* 196-225
BANK_CONFIGS(bank) ==
    CASE bank = "chase" -> Config_chase
      [] bank = "bank_of_america" -> Config_bank_of_america
      [] bank = "wells_fargo" -> Config_wells_fargo
      [] OTHER -> Config_generic

AnyContains(headers, word) == \E i \in 1..Len(headers) : Contains(Lower(headers[i]), word)

\* 228-240
detect_bank_from_csv(headers) ==
    IF AnyContains(headers, <<"c", "h", "a", "s", "e">>) THEN "chase"
    ELSE IF AnyContains(headers, <<"b", "a", "n", "k", " ", "o", "f", " ", "a", "m", "e", "r", "i", "c", "a">>)
            \/ AnyContains(headers, <<"b", "o", "f", "a">>) THEN "bank_of_america"
    ELSE IF AnyContains(headers, <<"w", "e", "l", "l", "s", " ", "f", "a", "r", "g", "o">>) THEN "wells_fargo"
    ELSE "generic"

\* 243-249: the column of the first possible name that is a header.
RECURSIVE find_column(_, _)
find_column(headers, possible_names) ==
    LET hits == { i \in 1..Len(headers) :
                     Strip(Lower(headers[i])) = Lower(Head(possible_names)) }
    IN  IF possible_names = <<>> THEN NoCol
        ELSE IF hits # {} THEN CHOOSE i \in hits : \A j \in hits : i <= j
        ELSE find_column(headers, Tail(possible_names))

\* The length of the leading run of digits of s.
DigitRun(s) ==
    LET stops == { i \in 1..Len(s) : s[i] \notin Digits }
    IN  IF stops = {} THEN Len(s) ELSE (CHOOSE i \in stops : \A j \in stops : i <= j) - 1

\* \d+\.?\d* up to the end of s.
PlainNumber(s) ==
    LET k == DigitRun(s)
        r == SubSeq(s, k + 1, Len(s))
    IN  k >= 1 /\ (r = <<>> \/ (Head(r) = "." /\ AllDigits(Tail(r))))

DropOne(s, c) == IF s # <<>> /\ Head(s) = c THEN Tail(s) ELSE s

\* 285: the search of ^["']?-?\s*\$?\s*[\d,]+\.?\d*["']?$ in the cell with the
\* commas and quotes removed and stripped.
AmountLike(cell) ==
    LET c == Strip(RemoveChars(cell, {",", "\"", "'"}))
        body == LStripSet(DropOne(LStripSet(DropOne(c, "-"), Whitespace), "$"), Whitespace)
    IN  PlainNumber(body)

\* 292, 374: re.sub(r'["\',\s$]', '', cell)
Cleaned(cell) == RemoveChars(cell, {"\"", "'", ",", "$"} \cup Whitespace)

\* 375: ^-?\d+\.?\d*$
BareNumber(cleaned) == PlainNumber(DropOne(cleaned, "-"))

\* 275-296: what a cell of the sample counts as.
CellClass(cell0, detected) ==
    LET cell == Strip(cell0)
    IN  IF cell = <<>> THEN "empty"
        ELSE IF parse_date(cell, NoHint, detected) # None THEN "date"
        ELSE IF AmountLike(cell) THEN "amount"
        ELSE "text"

SeqMaxOr(s, d) == IF s = <<>> THEN d ELSE SeqMax(s)

\* 260
NumCols(rows) == SeqMaxOr([r \in 1..Len(rows) |-> Len(rows[r])], 0)

\* The cells of column i in the first 20 rows.
ColumnSample(rows, i) ==
    LET sample == SelectSeq(FirstRows(rows, SampleRows), LAMBDA row : i <= Len(row))
    IN  [r \in 1..Len(sample) |-> Strip(sample[r][i])]

CountClass(classes, class) == Cardinality({ r \in 1..Len(classes) : classes[r] = class })

\* 281-296: the counts and signs of a column whose sampled cells have the
\* classes given.
ColCounts(cells, classes) ==
    LET amounts == { r \in 1..Len(cells) : classes[r] = "amount" }
    IN  [date_count |-> CountClass(classes, "date"),
         amount_count |-> CountClass(classes, "amount"),
         text_count |-> CountClass(classes, "text"),
         has_negative |-> \E r \in amounts : Contains(cells[r], <<"-">>),
         has_positive |-> \E r \in amounts :
                             /\ ~Contains(cells[r], <<"-">>)
                             /\ Cleaned(cells[r]) # <<>>
                             /\ Head(Cleaned(cells[r])) \in Digits]

\* 261-296: col_analysis[i]
ColAnalysis(rows, i, detected) ==
    ColCounts(ColumnSample(rows, i),
              [r \in 1..Len(ColumnSample(rows, i)) |->
                  CellClass(ColumnSample(rows, i)[r], detected)])

\* The first candidate of the greatest score: what sort(reverse=True), which
\* is stable, puts first.  NoCol when there is no candidate.
FirstOfGreatest(candidates, score) ==
    IF candidates = {} THEN NoCol
    ELSE CHOOSE i \in candidates :
             \A j \in candidates : score[j] < score[i] \/ (score[j] = score[i] /\ i <= j)

\* amount_score without the both-signs preference: the amount count alone.
amount_score_count_only(c) == c.amount_count

\* 313-316: (has_both, has_negative, amount_count), compared as a tuple; the
\* count is at most SampleRows, so the tuple order is the order of this
\* number.
amount_score(c) ==
    LET has_both == c.has_negative /\ c.has_positive
    IN  ((IF has_both THEN 2 ELSE 0) + (IF c.has_negative THEN 1 ELSE 0)) * (SampleRows + 1)
            + c.amount_count

\* 298-334: the roles, given col_analysis; the keys a dict lacks are NoCol.
DetectedColumns(cols, a) ==
    LET date == FirstOfGreatest({ i \in cols : a[i].date_count > 0 },
                                [i \in cols |-> a[i].date_count])
        amount == FirstOfGreatest({ i \in cols : a[i].amount_count > 0 },
                                  [i \in cols |-> amount_score(a[i])])
        description == FirstOfGreatest(
                           { i \in cols : a[i].text_count > 0 /\ i \notin {date, amount} },
                           [i \in cols |-> a[i].text_count])
    IN  [date |-> date, amount |-> amount, description |-> description]

\* 252-334
auto_detect_csv_columns(rows, detected) ==
    IF Len(rows) < 2
    THEN [date |-> NoCol, amount |-> NoCol, description |-> NoCol]
    ELSE DetectedColumns(1..NumCols(rows),
                         [i \in 1..NumCols(rows) |-> ColAnalysis(rows, i, detected)])

Blank(row) == \A i \in 1..Len(row) : Strip(row[i]) = <<>>

\* 357-362: the first row with a non-blank cell, the first row when all are
\* blank.
HeaderIdx(rows) ==
    LET hits == { i \in 1..Len(rows) : ~Blank(rows[i]) }
    IN  IF hits = {} THEN 1 ELSE CHOOSE i \in hits : \A j \in hits : i <= j

\* 366-377
FirstRowIsData(first_row, detected) ==
    \E i \in 1..Len(first_row) :
        \/ parse_date(first_row[i], NoHint, detected) # None
        \/ BareNumber(Cleaned(first_row[i]))

Or(col, other) == IF col = NoCol THEN other ELSE col

\* 436-439: the first header column that has no role yet.
FirstFreeColumn(headers, taken) ==
    LET free == { i \in 1..Len(headers) : i \notin taken }
    IN  IF free = {} THEN NoCol ELSE CHOOSE i \in free : \A j \in free : i <= j

ErrEmptyCsv == "CSV file appears to be empty or has no data rows"

ErrNoDateColumn == "Could not find date column"

ErrNoDescriptionColumn == "Could not find description column"

ErrNoAmountColumn == "Could not find amount column"

ErrNoValidTransactions == "No valid transactions found"

WarnNoHeader == "No header row detected - using auto-detection"

\* 357-386: the header row, if there is one, and the data rows.
CsvHeader(rows, header_idx, first_row_is_data) ==
    LET first_row == [i \in 1..Len(rows[header_idx]) |-> Strip(rows[header_idx][i])]
    IN  [header_idx |-> header_idx,
         first_row_is_data |-> first_row_is_data,
         headers |-> IF first_row_is_data THEN <<>> ELSE first_row,
         data_rows |-> SubSeq(rows, IF first_row_is_data THEN header_idx
                                    ELSE header_idx + 1, Len(rows))]

\* 392-445: the columns of the roles, given the bank the headers name and
\* what the inference finds in the data rows, and the error of a role that
\* stays without a column.
CsvColumns(header, bank, auto_detected) ==
    LET headers == header.headers
        config == BANK_CONFIGS(bank)
        by_header == headers # <<>>
        h_date == IF by_header THEN find_column(headers, config.date_columns) ELSE NoCol
        h_desc == IF by_header THEN find_column(headers, config.description_columns) ELSE NoCol
        h_amount == IF by_header THEN find_column(headers, config.amount_columns) ELSE NoCol
        debit_col == IF by_header THEN find_column(headers, config.debit_columns) ELSE NoCol
        credit_col == IF by_header THEN find_column(headers, config.credit_columns) ELSE NoCol
        auto == h_date = NoCol \/ h_desc = NoCol
                    \/ (h_amount = NoCol /\ debit_col = NoCol /\ credit_col = NoCol)
        date_col == IF auto THEN Or(h_date, auto_detected.date) ELSE h_date
        a_desc == IF auto THEN Or(h_desc, auto_detected.description) ELSE h_desc
        amount_col == IF auto THEN Or(h_amount, auto_detected.amount) ELSE h_amount
        desc_col == Or(a_desc, FirstFreeColumn(headers,
                                   {date_col, amount_col, debit_col, credit_col}))
    IN  [error |-> IF date_col = NoCol THEN ErrNoDateColumn
                   ELSE IF desc_col = NoCol THEN ErrNoDescriptionColumn
                   ELSE IF amount_col = NoCol /\ debit_col = NoCol /\ credit_col = NoCol
                   THEN ErrNoAmountColumn
                   ELSE "",
         header_idx |-> header.header_idx, data_rows |-> header.data_rows,
         date_col |-> date_col, desc_col |-> desc_col, amount_col |-> amount_col,
         debit_col |-> debit_col, credit_col |-> credit_col,
         bank_detected |-> IF auto THEN Some("auto-detected")
                           ELSE IF by_header THEN Some(bank) ELSE None,
         warnings |-> IF header.first_row_is_data THEN <<WarnNoHeader>> ELSE <<>>]

\* 398-425
CsvColumnsOf(header, detected) ==
    CsvColumns(header, detect_bank_from_csv(header.headers),
               auto_detect_csv_columns(header.data_rows, detected))

\* 357-377
CsvHeaderAt(rows, header_idx, detected) ==
    CsvHeader(rows, header_idx,
              FirstRowIsData([i \in 1..Len(rows[header_idx]) |-> Strip(rows[header_idx][i])],
                             detected))

\* 353-445 without line 433: the rows and columns the row loop works on, and
\* the error that ends the parse before the loop ("" when there is none).
CsvLayout(rows, detected) ==
    IF Len(rows) < 2
    THEN [error |-> ErrEmptyCsv, header_idx |-> 1, data_rows |-> <<>>,
          date_col |-> NoCol, desc_col |-> NoCol, amount_col |-> NoCol,
          debit_col |-> NoCol, credit_col |-> NoCol,
          bank_detected |-> None, warnings |-> <<>>]
    ELSE CsvColumnsOf(CsvHeaderAt(rows, HeaderIdx(rows), detected), detected)

\* ParsedTransaction of a CSV row: the default confidence and the row number
\* of raw_data.
RowTxn(date, description, amount, row_num) ==
    [date |-> date, description |-> description, amount |-> amount,
     confidence |-> 100, row |-> row_num]

Max2(a, b) == IF a < b THEN b ELSE a

\* 471-474: the amount of a debit or credit cell, None when there is no such
\* column or the cell is blank.
SideAmount(col, row) ==
    IF col # NoCol /\ Strip(row[col]) # <<>> THEN parse_amount(row[col]) ELSE None

\* DebitOrCredit, were the sign of the cell kept.
DebitOrCreditSigned(debit, credit) ==
    IF debit # None /\ debit # Some(0) THEN Some(-debit[1])
    ELSE IF credit # None /\ credit # Some(0) THEN Some(credit[1])
    ELSE None

\* 476-479
DebitOrCredit(debit, credit) ==
    IF debit # None /\ debit # Some(0) THEN Some(-Abs(debit[1]))
    ELSE IF credit # None /\ credit # Some(0) THEN Some(Abs(credit[1]))
    ELSE None

\* 465-479
RowAmount(layout, row) ==
    IF layout.amount_col # NoCol /\ Strip(row[layout.amount_col]) # <<>>
    THEN parse_amount(row[layout.amount_col])
    ELSE DebitOrCredit(SideAmount(layout.debit_col, row), SideAmount(layout.credit_col, row))

\* RowResult, were the rows of negative amount skipped.
RowResultPositiveOnly(layout, k, date, amount) ==
    LET row == layout.data_rows[k]
        max_col == Max2(Max2(layout.date_col, layout.desc_col),
                        Max2(layout.amount_col, Max2(layout.debit_col, layout.credit_col)))
        description == Strip(row[layout.desc_col])
    IN  IF Len(row) < max_col THEN None
        ELSE IF date = None THEN None
        ELSE IF description = <<>> THEN None
        ELSE IF amount = None \/ amount[1] <= 0 THEN None
        ELSE Some(RowTxn(date[1], description, amount[1], layout.header_idx + k))

\* 450-490: the transaction of a row whose date and amount have resolved as
\* given, None when the row is skipped.
RowResult(layout, k, date, amount) ==
    LET row == layout.data_rows[k]
        max_col == Max2(Max2(layout.date_col, layout.desc_col),
                        Max2(layout.amount_col, Max2(layout.debit_col, layout.credit_col)))
        description == Strip(row[layout.desc_col])
    IN  IF Len(row) < max_col THEN None
        ELSE IF date = None THEN None
        ELSE IF description = <<>> THEN None
        ELSE IF amount = None \/ amount = Some(0) THEN None
        ELSE Some(RowTxn(date[1], description, amount[1], layout.header_idx + k))

\* 448-490: the transaction of the k-th data row when the module-level hint
\* is detected, None when the row is skipped.
CsvRowTxn(layout, k, detected) ==
    RowResult(layout, k,
              parse_date(layout.data_rows[k][layout.date_col], NoHint, detected),
              RowAmount(layout, layout.data_rows[k]))

\* The result before the row loop.
CsvStart(layout) ==
    [NewResult EXCEPT !.parser_used = "csv",
                      !.bank_detected = layout.bank_detected,
                      !.warnings = layout.warnings,
                      !.errors = IF layout.error = "" THEN <<>> ELSE <<layout.error>>]

\* 495-496
CsvEnd(result) ==
    IF result.transactions = <<>>
    THEN [result EXCEPT !.errors = Append(@, ErrNoValidTransactions)]
    ELSE result

RECURSIVE CsvRows(_, _, _, _)
CsvRows(layout, k, detected, result) ==
    IF k > Len(layout.data_rows) THEN result
    ELSE CsvRows(layout, k + 1, detected,
                 [result EXCEPT !.transactions = @ \o CsvRowTxn(layout, k, detected)])

\* 337-501 run without interruption when the module-level hint is detected
\* at the call: the result, and the hint the call leaves behind.
parse_csv_statement(rows, detected) ==
    LET layout == CsvLayout(rows, detected)
        hint == set_date_format_hint(layout.data_rows, layout.date_col)
    IN  IF layout.error \in {ErrEmptyCsv, ErrNoDateColumn}
        THEN [result |-> CsvStart(layout), detected |-> detected]
        ELSE IF layout.error # ""
        THEN [result |-> CsvStart(layout), detected |-> hint]
        ELSE [result |-> CsvEnd(CsvRows(layout, 1, hint, CsvStart(layout))),
              detected |-> hint]

(***************************************************************************)
(* The PDF text parser (635-730).  The text is kept as its lines.          *)
(***************************************************************************)
DigitRunAt(s, i) == DigitRun(SubSeq(s, i, Len(s)))

IsDateSep(s, i) == i <= Len(s) /\ s[i] \in {"/", "-"}

Min2(a, b) == IF a < b THEN a ELSE b

\* 651: the length of the match of date_pattern at position i, 0 when it
\* does not match there.  \d{1,2}[/-]\d{1,2}[/-]\d{2,4} is tried first, then
\* \d{4}[/-]\d{1,2}[/-]\d{1,2}.
DateMatchLen(s, i) ==
    LET r1 == DigitRunAt(s, i)
        i2 == i + r1 + 1
        r2 == DigitRunAt(s, i2)
        i3 == i2 + r2 + 1
        r3 == DigitRunAt(s, i3)
        seps == IsDateSep(s, i + r1) /\ IsDateSep(s, i2 + r2)
    IN  IF r1 \in 1..2 /\ seps /\ r2 \in 1..2 /\ r3 >= 2
        THEN r1 + 1 + r2 + 1 + Min2(r3, 4)
        ELSE IF r1 = 4 /\ seps /\ r2 \in 1..2 /\ r3 >= 1
        THEN r1 + 1 + r2 + 1 + Min2(r3, 2)
        ELSE 0

\* date_pattern.search(line): the position of the leftmost match, 0 when
\* there is none.
DateSearch(s) ==
    LET hits == { i \in 1..Len(s) : DateMatchLen(s, i) > 0 }
    IN  IF hits = {} THEN 0 ELSE CHOOSE i \in hits : \A j \in hits : i <= j

WordChars ==
    Digits \cup {"_"}
        \cup {"a", "b", "c", "d", "e", "f", "g", "h", "i", "j", "k", "l", "m",
              "n", "o", "p", "q", "r", "s", "t", "u", "v", "w", "x", "y", "z"}
        \cup {"A", "B", "C", "D", "E", "F", "G", "H", "I", "J", "K", "L", "M",
              "N", "O", "P", "Q", "R", "S", "T", "U", "V", "W", "X", "Y", "Z"}

\* \b between positions e and e + 1 of s.
Boundary(s, e) ==
    (e >= 1 /\ s[e] \in WordChars) # (e + 1 <= Len(s) /\ s[e + 1] \in WordChars)

SkipWs(s, i) == i + Len(SubSeq(s, i, Len(s))) - Len(LStripSet(SubSeq(s, i, Len(s)), Whitespace))

RunOf(s, i, chars) ==
    LET stops == { j \in i..Len(s) : s[j] \notin chars }
    IN  (IF stops = {} THEN Len(s) + 1 ELSE CHOOSE j \in stops : \A k \in stops : j <= k) - i

\* 654: the last position of the match of
\* (-?\s*\$?\s*[\d,]+(?:\.\d{1,2})?)\b that starts at position i, 0 when
\* there is none: the longest run of digits and commas with the longest
\* fraction first, then shorter ones, until the word boundary holds.
AmountMatchEnd(s, i) ==
    LET a == IF i <= Len(s) /\ s[i] = "-" THEN i + 1 ELSE i
        b == SkipWs(s, a)
        c == IF b <= Len(s) /\ s[b] = "$" THEN b + 1 ELSE b
        d == SkipWs(s, c)
        r == RunOf(s, d, Digits \cup {","})
        e == d + r - 1
        f == IF e + 1 <= Len(s) /\ s[e + 1] = "." THEN Min2(DigitRunAt(s, e + 2), 2) ELSE 0
        shorter == { k \in d..e : Boundary(s, k) }
    IN  IF r = 0 THEN 0
        ELSE IF f = 2 /\ Boundary(s, e + 3) THEN e + 3
        ELSE IF f >= 1 /\ Boundary(s, e + 2) THEN e + 2
        ELSE IF shorter = {} THEN 0
        ELSE CHOOSE k \in shorter : \A j \in shorter : j <= k

\* amount_pattern.findall(line) from position i on.
RECURSIVE AmountMatches(_, _)
AmountMatches(s, i) ==
    IF i > Len(s) THEN <<>>
    ELSE IF AmountMatchEnd(s, i) = 0 THEN AmountMatches(s, i + 1)
    ELSE <<SubSeq(s, i, AmountMatchEnd(s, i))>> \o AmountMatches(s, AmountMatchEnd(s, i) + 1)

\* 680-685: the last match that parses to a non-zero amount.
RECURSIVE LastAmount(_)
LastAmountOr(matches, parsed) ==
    IF parsed # None /\ parsed # Some(0) THEN parsed
    ELSE LastAmount(SubSeq(matches, 1, Len(matches) - 1))

LastAmount(matches) ==
    IF matches = <<>> THEN None
    ELSE LastAmountOr(matches, parse_amount(matches[Len(matches)]))

\* str.replace(p, '', 1)
RemoveFirst(s, p) ==
    LET at == IndexOf(s, p)
    IN  IF at = 0 \/ p = <<>> THEN s
        ELSE SubSeq(s, 1, at - 1) \o SubSeq(s, at + Len(p), Len(s))

RECURSIVE RemoveEach(_, _)
RemoveEach(s, ps) ==
    IF ps = <<>> THEN s ELSE RemoveEach(RemoveFirst(s, Head(ps)), Tail(ps))

DescriptionNoise == Whitespace \cup {"-", "*", "|"}

\* 692-700
LineDescription(line, at, amount_matches) ==
    RStripSet(LStripSet(CollapseWs(RemoveEach(SubSeq(line, 1, at - 1)
                                                  \o SubSeq(line, at + DateMatchLen(line, at),
                                                            Len(line)),
                                              amount_matches)),
                        DescriptionNoise),
              DescriptionNoise)

\* 705
skip_words ==
    {<<"d", "a", "t", "e">>,
     <<"d", "e", "s", "c", "r", "i", "p", "t", "i", "o", "n">>,
     <<"a", "m", "o", "u", "n", "t">>,
     <<"b", "a", "l", "a", "n", "c", "e">>,
     <<"t", "o", "t", "a", "l">>,
     <<"b", "e", "g", "i", "n", "n", "i", "n", "g">>,
     <<"e", "n", "d", "i", "n", "g">>,
     <<"s", "t", "a", "t", "e", "m", "e", "n", "t">>,
     <<"p", "e", "r", "i", "o", "d">>}

MinLineLen == 10

MinDescriptionLen == 3

KeyLen == 30

\* ParsedTransaction of a PDF text line.
TextTxn(date, description, amount) == Txn(date, description, amount, 70)

\* 660-722: the transaction of a stripped line whose date is matched at
\* position at and whose date, amount and description are as given, None
\* when the line is skipped.
LineResult(line, at, date, amount, description) ==
    IF Len(line) < MinLineLen THEN None
    ELSE IF at = 0 \/ date = None THEN None
    ELSE IF amount = None THEN None
    ELSE IF Len(description) < MinDescriptionLen THEN None
    ELSE IF \E word \in skip_words : Contains(Lower(description), word) THEN None
    ELSE IF Contains(Lower(line), <<"b", "a", "l", "a", "n", "c", "e">>) THEN None
    ELSE Some(TextTxn(date[1], description, amount[1]))

\* 664-700
LineTxnAt(line, at, amount_matches, detected) ==
    LineResult(line, at,
               parse_date(SubSeq(line, at, at + DateMatchLen(line, at) - 1), NoHint, detected),
               LastAmount(amount_matches),
               LineDescription(line, at, amount_matches))

\* 658-722: the transaction of one line when the module-level hint is
\* detected, None when the line is skipped.
PdfLineTxn(line0, detected) ==
    LineTxnAt(Strip(line0), DateSearch(Strip(line0)), AmountMatches(Strip(line0), 1), detected)

\* 714: txn_key
TxnKeyOf(txn) == <<txn.date, Prefix(txn.description, KeyLen), txn.amount>>

\* 713-725: the transaction of a line, if it has one, added to the result.
PdfAdd(result, txn) ==
    LET seen == { TxnKeyOf(result.transactions[i]) : i \in 1..Len(result.transactions) }
    IN  IF txn = None \/ TxnKeyOf(txn[1]) \in seen THEN result
        ELSE [result EXCEPT !.transactions = Append(@, txn[1])]

\* 658-725: one line added to the result.
PdfAddLine(result, line, detected) == PdfAdd(result, PdfLineTxn(line, detected))

WarnNoPdfTransactions == "No transactions could be parsed from PDF text"

ErrNoPdfText == "No text could be extracted from PDF"

\* 727-728
PdfTextEnd(result) ==
    IF result.transactions = <<>>
    THEN [result EXCEPT !.warnings = Append(@, WarnNoPdfTransactions)]
    ELSE result

RECURSIVE PdfLines(_, _, _, _)
PdfLines(lines, k, detected, result) ==
    IF k > Len(lines) THEN result
    ELSE PdfLines(lines, k + 1, detected, PdfAddLine(result, lines[k], detected))

\* 635-730 run without interruption when the module-level hint is detected.
parse_pdf_text(lines, detected) ==
    LET base == [NewResult EXCEPT !.parser_used = "pdf_text"]
    IN  IF \A k \in 1..Len(lines) : Strip(lines[k]) = <<>>
        THEN [base EXCEPT !.errors = <<ErrNoPdfText>>]
        ELSE PdfTextEnd(PdfLines(lines, 1, detected, base))

(***************************************************************************)
(* The AI parser (772-910).  What the model answers for one image is an    *)
(* input of the program: the call raises, or the answer is a text that is  *)
(* not JSON, or a JSON value: a string (text), a number (num, in           *)
(* hundredths), null, an array of values (items) or an object; an object   *)
(* is kept by its "date", "amount" and "description" members, each a JSON  *)
(* value or Missing.  A fenced answer is kept as the JSON value inside     *)
(* the fence.                                                              *)
(***************************************************************************)
JValue(j, text, num, items) == [j |-> j, text |-> text, num |-> num, items |-> items]

Missing == JValue("missing", <<>>, 0, <<>>)

JNull == JValue("null", <<>>, 0, <<>>)

JStr(text) == JValue("str", text, 0, <<>>)

JNum(cents) == JValue("num", <<>>, cents, <<>>)

JArray(items) == JValue("array", <<>>, 0, items)

\* The members "date", "amount" and "description", in this order.
JObject(date, amount, description) == JValue("object", <<>>, 0, <<date, amount, description>>)

NotJson == JValue("invalid", <<>>, 0, <<>>)

Raised == JValue("exception", <<>>, 0, <<>>)

WarnAiTransaction == "Could not parse AI-extracted transaction"

WarnAiNothing == "AI could not extract any transactions from the image"

ErrAi == "AI parsing error"

\* ParsedTransaction of an AI record.
AiTxn(date, description, amount) == Txn(date, description, amount, 80)

\* str(x) of a JSON string or null.
PyStr(x) == IF x.j = "str" THEN x.text ELSE <<"N", "o", "n", "e">>

\* 889-902: what an element does whose date and amount convert as given.
AiRecordOf(txn_data, date, amount) ==
    LET date_j == txn_data.items[1]
        amount_j == txn_data.items[2]
        description_j == txn_data.items[3]
    IN  IF txn_data.j # "object" THEN [kind |-> "raise", txn |-> None]
        ELSE IF date_j.j = "missing" THEN [kind |-> "warning", txn |-> None]
        ELSE IF date_j.j # "str" THEN [kind |-> "raise", txn |-> None]
        ELSE IF date = None THEN [kind |-> "warning", txn |-> None]
        ELSE IF amount_j.j = "missing" THEN [kind |-> "warning", txn |-> None]
        ELSE IF amount_j.j \notin {"num", "str"} THEN [kind |-> "raise", txn |-> None]
        ELSE IF amount = None THEN [kind |-> "warning", txn |-> None]
        ELSE IF description_j.j = "missing" THEN [kind |-> "warning", txn |-> None]
        ELSE [kind |-> "txn", txn |-> Some(AiTxn(date[1], PyStr(description_j), amount[1]))]

\* 889-902: what one element of the answer does: "txn" with the
\* transaction, "warning" for a KeyError or ValueError, "raise" for any
\* other exception (a TypeError).
AiRecord(txn_data) ==
    AiRecordOf(txn_data,
               Strptime(txn_data.items[1].text, Fmt("Y", <<"-">>, "m", <<"-">>, "d")),
               IF txn_data.items[2].j = "num" THEN Some(txn_data.items[2].num)
               ELSE PyFloat(Strip(txn_data.items[2].text)))

\* 888-908: the loop over the elements, from the k-th on; an exception that
\* is not caught in the loop ends it with an error.
RECURSIVE AiRecords(_, _, _)
AiRecordsAfter(items, k, result, r) ==
    IF r.kind = "raise" THEN [result EXCEPT !.errors = Append(@, ErrAi)]
    ELSE IF r.kind = "warning"
    THEN AiRecords(items, k + 1, [result EXCEPT !.warnings = Append(@, WarnAiTransaction)])
    ELSE AiRecords(items, k + 1, [result EXCEPT !.transactions = Append(@, r.txn[1])])

AiRecords(items, k, result) ==
    IF k > Len(items)
    THEN (IF result.transactions = <<>>
          THEN [result EXCEPT !.warnings = Append(@, WarnAiNothing)]
          ELSE result)
    ELSE AiRecordsAfter(items, k, result, AiRecord(items[k]))

\* What iterating the answer yields: the elements of an array, the keys
\* (strings) of an object, the characters of a string.
Elements(answer) ==
    IF answer.j = "array" THEN answer.items
    ELSE IF answer.j = "str" THEN [i \in 1..Len(answer.text) |-> JStr(<<answer.text[i]>>)]
    ELSE LET members == SelectSeq(answer.items, LAMBDA m : m.j # "missing")
         IN  [i \in 1..Len(members) |-> JStr(<<"k">>)]

\* 824-910
parse_single_image(answer) ==
    LET base == [NewResult EXCEPT !.parser_used = "ai"]
    IN  IF answer.j \in {"exception", "invalid", "null", "num"}
        THEN [base EXCEPT !.errors = <<ErrAi>>]
        ELSE AiRecords(Elements(answer), 1, base)

\* 598: the pages convert_pdf_to_images renders.
MaxAiPages == 5

ErrConvert == "Could not convert PDF to images"

ErrNoPdfTransactions == "No transactions found in the PDF"

PageError(page_num) ==
    CASE page_num = 1 -> "Page 1: AI parsing error"
      [] page_num = 2 -> "Page 2: AI parsing error"
      [] page_num = 3 -> "Page 3: AI parsing error"
      [] page_num = 4 -> "Page 4: AI parsing error"
      [] OTHER -> "Page 5: AI parsing error"

\* AiAddPage, were the errors of a page kept as errors of the PDF.
AiAddPageAsError(result, page_num, page_result) ==
    [result EXCEPT
        !.transactions = @ \o page_result.transactions,
        !.warnings = @ \o page_result.warnings,
        !.errors = @ \o (IF page_result.errors # <<>> THEN <<PageError(page_num)>>
                         ELSE <<>>)]

\* 801-806: the result of one page added to the result of the PDF.
AiAddPage(result, page_num, page_result) ==
    [result EXCEPT
        !.transactions = @ \o page_result.transactions,
        !.warnings = @ \o page_result.warnings
                         \o (IF page_result.errors # <<>> THEN <<PageError(page_num)>>
                             ELSE <<>>)]

\* 808-811
AiPdfEnd(result) ==
    IF result.transactions = <<>>
    THEN [result EXCEPT !.errors = Append(@, ErrNoPdfTransactions)]
    ELSE result

(***************************************************************************)
(* parse_statement (917-1000).  The content of a file is kept by what the  *)
(* program reads of it: its magic bytes, the rows csv.reader makes of it,  *)
(* its OFX tags, and, when PyMuPDF opens it, the text lines of its pages.  *)
(* PyMuPDF and the OpenAI package are installed.                           *)
(***************************************************************************)
Content(magic, rows, tags, pdf_valid, pages) ==
    [magic |-> magic, rows |-> rows, tags |-> tags, pdf_valid |-> pdf_valid, pages |-> pages]

\* A call of parse_statement; openai_api_key is whether a key is given.
Request(filename, content, openai_api_key) ==
    [filename |-> filename, content |-> content, openai_api_key |-> openai_api_key]

\* detect_file_type, were the magic bytes read before the extension.
detect_file_type_magic_first(filename, content) ==
    LET filename_lower == Lower(filename)
    IN  IF content.magic = "pdf" THEN "application/pdf"
        ELSE IF content.magic = "png" THEN "image/png"
        ELSE IF content.magic = "jpeg" THEN "image/jpeg"
        ELSE IF EndsWith(filename_lower, <<".", "c", "s", "v">>) THEN "text/csv"
        ELSE IF EndsWith(filename_lower, <<".", "o", "f", "x">>) THEN "application/x-ofx"
        ELSE IF EndsWith(filename_lower, <<".", "q", "f", "x">>) THEN "application/x-qfx"
        ELSE IF EndsWith(filename_lower, <<".", "p", "d", "f">>) THEN "application/pdf"
        ELSE IF EndsWith(filename_lower, <<".", "p", "n", "g">>) THEN "image/png"
        ELSE IF EndsWith(filename_lower, <<".", "g", "i", "f">>) THEN "image/gif"
        ELSE IF EndsWith(filename_lower, <<".", "w", "e", "b", "p">>) THEN "image/webp"
        ELSE IF EndsWith(filename_lower, <<".", "j", "p", "g">>)
                \/ EndsWith(filename_lower, <<".", "j", "p", "e", "g">>) THEN "image/jpeg"
        ELSE IF content.magic = "ofx" THEN "application/x-ofx"
        ELSE "text/csv"

\* 917-953.  content.magic is what the sniffing finds: "pdf", "png" or
\* "jpeg" for these leading bytes, and otherwise "ofx" when the first 1000
\* bytes hold <OFX> or OFXHEADER.
detect_file_type(filename, content) ==
    LET filename_lower == Lower(filename)
    IN  IF EndsWith(filename_lower, <<".", "c", "s", "v">>) THEN "text/csv"
        ELSE IF EndsWith(filename_lower, <<".", "o", "f", "x">>) THEN "application/x-ofx"
        ELSE IF EndsWith(filename_lower, <<".", "q", "f", "x">>) THEN "application/x-qfx"
        ELSE IF EndsWith(filename_lower, <<".", "p", "d", "f">>) THEN "application/pdf"
        ELSE IF EndsWith(filename_lower, <<".", "p", "n", "g">>) THEN "image/png"
        ELSE IF EndsWith(filename_lower, <<".", "g", "i", "f">>) THEN "image/gif"
        ELSE IF EndsWith(filename_lower, <<".", "w", "e", "b", "p">>) THEN "image/webp"
        ELSE IF EndsWith(filename_lower, <<".", "j", "p", "g">>)
                \/ EndsWith(filename_lower, <<".", "j", "p", "e", "g">>) THEN "image/jpeg"
        ELSE IF content.magic = "pdf" THEN "application/pdf"
        ELSE IF content.magic = "png" THEN "image/png"
        ELSE IF content.magic = "jpeg" THEN "image/jpeg"
        ELSE IF content.magic = "ofx" THEN "application/x-ofx"
        ELSE "text/csv"

RECURSIVE PagesLines(_)
PagesLines(pages) ==
    IF pages = <<>> THEN <<>> ELSE Head(pages) \o <<<<>>>> \o PagesLines(Tail(pages))

\* 614-632: the lines of extract_pdf_text: every line of get_text() and the
\* "\n" added after each page.
extract_pdf_text(content) == IF content.pdf_valid THEN PagesLines(content.pages) ELSE <<>>

RECURSIVE JoinLines(_)
JoinLines(lines) ==
    IF lines = <<>> THEN <<>>
    ELSE IF Len(lines) = 1 THEN Head(lines)
    ELSE Head(lines) \o <<"\n">> \o JoinLines(Tail(lines))

\* len(text.strip())
StrippedLen(lines) ==
    LET space == Whitespace \cup {"\n"}
    IN  Len(RStripSet(LStripSet(JoinLines(lines), space), space))

\* 741
MinTextLen == 100

\* 589-611: the number of images convert_pdf_to_images returns.
convert_pdf_to_images(content) ==
    IF content.pdf_valid THEN Min2(Len(content.pages), MaxAiPages) ELSE 0

ErrPdfText == "Could not parse transactions from PDF text"

ErrScannedPdf == "This PDF appears to be scanned/image-based"

ErrImageNeedsKey == "Image parsing requires an OpenAI API key"

UsesCsv(file_type) == file_type = "text/csv"

UsesOfx(file_type) == file_type \in {"application/x-ofx", "application/x-qfx"}

UsesPdf(file_type) == file_type = "application/pdf"

Finished(c, result) == [c EXCEPT !.pc = "done", !.result = result]

AiBase == [NewResult EXCEPT !.parser_used = "ai"]

\* 785-797, 814: parse_with_ai up to the first image: a PDF that gives no
\* image ends with an error, otherwise n images are to be read.
StartAi(c) ==
    LET n == convert_pdf_to_images(c.req.content)
    IN  IF ~UsesPdf(detect_file_type(c.req.filename, c.req.content))
        THEN [c EXCEPT !.pc = "ai", !.k = 1, !.n = 1, !.result = AiBase]
        ELSE IF n = 0 THEN Finished(c, [AiBase EXCEPT !.errors = <<ErrConvert>>])
        ELSE [c EXCEPT !.pc = "ai", !.k = 1, !.n = n, !.result = AiBase]

\* AfterPdfText, were the AI parser tried whether or not a key is given.
AfterPdfTextTryAi(c) ==
    IF c.result.transactions # <<>> THEN Finished(c, c.result)
    ELSE StartAi(c)

\* 744-758: parse_pdf_statement after parse_pdf_text has returned c.result.
AfterPdfText(c) ==
    IF c.result.transactions # <<>> THEN Finished(c, c.result)
    ELSE IF c.req.openai_api_key THEN StartAi(c)
    ELSE Finished(c, [c.result EXCEPT !.errors = Append(@, ErrPdfText)])

\* 337-430: parse_csv_statement up to its call of set_date_format_hint, or
\* to its return when that call is not reached.
DispatchCsv(c, layout) ==
    IF layout.error \in {ErrEmptyCsv, ErrNoDateColumn}
    THEN Finished([c EXCEPT !.layout = layout], CsvStart(layout))
    ELSE [c EXCEPT !.pc = "csv_hint", !.layout = layout, !.result = CsvStart(layout)]

\* 739-769: parse_pdf_statement up to the first line of the text.
DispatchPdf(c, lines) ==
    IF StrippedLen(lines) > MinTextLen
    THEN [c EXCEPT !.pc = "pdf_lines", !.lines = lines, !.k = 1,
                   !.result = [NewResult EXCEPT !.parser_used = "pdf_text"]]
    ELSE IF c.req.openai_api_key THEN StartAi(c)
    ELSE Finished(c, [NewResult EXCEPT !.errors = <<ErrScannedPdf>>])

\* 972-995
DispatchAs(c, file_type, detected) ==
    IF UsesCsv(file_type) THEN DispatchCsv(c, CsvLayout(c.req.content.rows, detected))
    ELSE IF UsesOfx(file_type) THEN Finished(c, parse_ofx_statement(c.req.content.tags))
    ELSE IF UsesPdf(file_type) THEN DispatchPdf(c, extract_pdf_text(c.req.content))
    ELSE IF ~c.req.openai_api_key
    THEN Finished(c, [NewResult EXCEPT !.errors = <<ErrImageNeedsKey>>])
    ELSE StartAi(c)

\* 972-1000, 739-769 and 337-430: parse_statement from its call to its
\* first access to the module-level hint that another call can change, or to
\* its first image, or to its return.
Dispatch(req, detected) ==
    DispatchAs([IdleCall EXCEPT !.req = req], detect_file_type(req.filename, req.content),
               detected)

\* 972-1000 run without interruption and without the AI parser: the result
\* and the hint the call leaves behind; ai says that the call goes on to the
\* AI parser, whose result depends on what the model answers.
parse_statement(req, detected) ==
    LET file_type == detect_file_type(req.filename, req.content)
        lines == extract_pdf_text(req.content)
        text == parse_pdf_text(lines, detected)
        csv == parse_csv_statement(req.content.rows, detected)
        same(result, ai) == [result |-> result, detected |-> detected, ai |-> ai]
    IN  IF UsesCsv(file_type)
        THEN [result |-> csv.result, detected |-> csv.detected, ai |-> FALSE]
        ELSE IF UsesOfx(file_type)
        THEN same(parse_ofx_statement(req.content.tags), FALSE)
        ELSE IF UsesPdf(file_type) /\ StrippedLen(lines) > MinTextLen
        THEN (IF text.transactions # <<>> THEN same(text, FALSE)
              ELSE IF req.openai_api_key THEN same(AiBase, TRUE)
              ELSE same([text EXCEPT !.errors = Append(@, ErrPdfText)], FALSE))
        ELSE IF req.openai_api_key THEN same(AiBase, TRUE)
        ELSE IF UsesPdf(file_type)
        THEN same([NewResult EXCEPT !.errors = <<ErrScannedPdf>>], FALSE)
        ELSE same([NewResult EXCEPT !.errors = <<ErrImageNeedsKey>>], FALSE)

(***************************************************************************)
(* The workers.  Each step of a call is one action: between two accesses   *)
(* to the module-level hint, or two requests to the model, another worker  *)
(* may run.                                                                *)
(***************************************************************************)
\* The elements of an answer of the model.
GoodRecord == JObject(JStr(<<"2", "0", "2", "4", "-", "0", "1", "-", "1", "5">>), JNum(-4599), JStr(TextAmazon))

BadDateRecord == JObject(JStr(<<"1", "5", "/", "0", "1", "/", "2", "0", "2", "4">>), JNum(-4599), JStr(TextAmazon))

NoDescriptionRecord == JObject(JStr(<<"2", "0", "2", "4", "-", "0", "1", "-", "1", "5">>), JStr(<<"-", "4", "5", ".", "9", "9">>), Missing)

NullAmountRecord == JObject(JStr(<<"2", "0", "2", "4", "-", "0", "1", "-", "1", "5">>), JNull, JStr(TextAmazon))

AnswerRecords == {GoodRecord, BadDateRecord, NoDescriptionRecord, NullAmountRecord}

MaxRecords == 2

\* What the model may answer for an image.
Answers ==
    {Raised, NotJson, JNull, JObject(Missing, Missing, Missing)}
        \cup { JArray(items) : items \in SeqsUpTo(AnswerRecords, MaxRecords) }

Call(w) ==
    /\ call[w].pc = "idle"
    /\ uploads[w] # <<>>
    /\ call' = [call EXCEPT ![w] = Dispatch(Head(uploads[w]), detected_date_format)]
    /\ uploads' = [uploads EXCEPT ![w] = Tail(@)]
    /\ UNCHANGED <<detected_date_format, returned, amountVars, recurringVars, ofxVars, aiVars, retry>>

\* 433-445: set_date_format_hint, then the columns that are still missing.
CsvSetHint(w) ==
    LET c == call[w]
    IN  /\ c.pc = "csv_hint"
        /\ detected_date_format' =
               set_date_format_hint(c.layout.data_rows, c.layout.date_col)
        /\ call' = [call EXCEPT ![w] =
                        IF c.layout.error # "" THEN Finished(c, c.result)
                        ELSE IF c.layout.data_rows = <<>> THEN Finished(c, CsvEnd(c.result))
                        ELSE [c EXCEPT !.pc = "csv_rows", !.k = 1]]
        /\ UNCHANGED <<uploads, returned, amountVars, recurringVars, ofxVars, aiVars, retry>>

\* 490-496: the call after a row that leaves the result as given.
AfterCsvRow(c, result) ==
    IF c.k = Len(c.layout.data_rows) THEN Finished(c, CsvEnd(result))
    ELSE [c EXCEPT !.k = c.k + 1, !.result = result]

\* 448-496: one data row, and the end of the loop after the last.
CsvRow(w) ==
    /\ call[w].pc = "csv_rows"
    /\ call' = [call EXCEPT ![w] =
                    AfterCsvRow(call[w],
                                [call[w].result EXCEPT
                                    !.transactions =
                                        @ \o CsvRowTxn(call[w].layout, call[w].k,
                                                       detected_date_format)])]
    /\ UNCHANGED <<detected_date_format, uploads, returned,
                   amountVars, recurringVars, ofxVars, aiVars, retry>>

\* 725-758: the call after a line that leaves the result as given.
AfterPdfLine(c, result) ==
    IF c.k = Len(c.lines)
    THEN AfterPdfText([c EXCEPT !.result = PdfTextEnd(result)])
    ELSE [c EXCEPT !.k = c.k + 1, !.result = result]

\* 658-730 and 744-758: one line of the text, and what follows the last.
PdfLine(w) ==
    /\ call[w].pc = "pdf_lines"
    /\ call' = [call EXCEPT ![w] =
                    AfterPdfLine(call[w],
                                 PdfAddLine(call[w].result, call[w].lines[call[w].k],
                                            detected_date_format))]
    /\ UNCHANGED <<detected_date_format, uploads, returned,
                   amountVars, recurringVars, ofxVars, aiVars, retry>>

\* 802-814: the call after an image whose result is page_result.
AfterImage(c, page_result) ==
    IF ~UsesPdf(detect_file_type(c.req.filename, c.req.content))
    THEN Finished(c, page_result)
    ELSE IF c.k = c.n THEN Finished(c, AiPdfEnd(AiAddPage(c.result, c.k, page_result)))
    ELSE [c EXCEPT !.k = c.k + 1, !.result = AiAddPage(c.result, c.k, page_result)]

\* 801-814: one image read by the model.
AiStep(w) ==
    /\ call[w].pc = "ai"
    /\ \E answer \in Answers :
           call' = [call EXCEPT ![w] = AfterImage(call[w], parse_single_image(answer))]
    /\ UNCHANGED <<detected_date_format, uploads, returned,
                   amountVars, recurringVars, ofxVars, aiVars, retry>>

Return(w) ==
    /\ call[w].pc = "done"
    /\ returned' = [returned EXCEPT ![w] =
                       Append(@, [req |-> call[w].req, result |-> call[w].result])]
    /\ call' = [call EXCEPT ![w] = IdleCall]
    /\ UNCHANGED <<detected_date_format, uploads, amountVars, recurringVars, ofxVars, aiVars, retry>>

Next ==
    \E w \in Workers :
        \/ Call(w)
        \/ CsvSetHint(w)
        \/ CsvRow(w)
        \/ PdfLine(w)
        \/ AiStep(w)
        \/ Return(w)

(***************************************************************************)
(* The files of the runs.                                                  *)
(***************************************************************************)
CsvContent(rows) == Content("none", rows, <<>>, FALSE, <<>>)

PdfContent(pages) == Content("pdf", <<>>, <<>>, TRUE, pages)

PngContent == Content("png", <<>>, <<>>, FALSE, <<>>)

OfxContent(tags) == Content("ofx", <<>>, tags, FALSE, <<>>)

NameCsv == <<"s", ".", "c", "s", "v">>

NamePdf == <<"s", ".", "p", "d", "f">>

NamePng == <<"s", ".", "p", "n", "g">>

NameOfx == <<"s", ".", "o", "f", "x">>

TextDate == <<"D", "a", "t", "e">>

TextDescription == <<"D", "e", "s", "c", "r", "i", "p", "t", "i", "o", "n">>

TextAmount == <<"A", "m", "o", "u", "n", "t">>

TextCoffee == <<"C", "O", "F", "F", "E", "E">>

TextMinus450 == <<"-", "4", ".", "5", "0">>

Text2024 == <<"2", "0", "2", "4">>

Text24 == <<"2", "4">>

DigitChars == <<"0", "1", "2", "3", "4", "5", "6", "7", "8", "9">>

TwoDigits(n) == <<DigitChars[(n \div 10) + 1], DigitChars[(n % 10) + 1]>>

\* The text "aa<sep>bb<sep>2024", or "aa<sep>bb<sep>24" when yw is 2.
DateText(a, b, sep, yw) ==
    TwoDigits(a) \o <<sep>> \o TwoDigits(b) \o <<sep>> \o (IF yw = 4 THEN Text2024 ELSE Text24)

HeaderRow == <<TextDate, TextDescription, TextAmount>>

DataRow(date) == <<date, TextCoffee, TextMinus450>>

CsvRequest(rows) == Request(NameCsv, CsvContent(<<HeaderRow>> \o rows), FALSE)

\* One ambiguous date: 2 March 2024 day-first, 3 February 2024 month-first.
CsvAmbiguous == CsvRequest(<<DataRow(DateText(2, 3, "/", 4))>>)

\* A month-first file and a day-first file.
CsvMonthFirst ==
    CsvRequest(<<DataRow(DateText(1, 13, "/", 4)), DataRow(DateText(2, 3, "/", 4))>>)

CsvDayFirst ==
    CsvRequest(<<DataRow(DateText(13, 1, "/", 4)), DataRow(DateText(2, 3, "/", 4))>>)

\* A line of a statement that holds no transaction, long enough for the
\* text of the page to count as extracted.
BannerLine == [i \in 1..(MinTextLen + 1) |-> "="]

PdfTextLine == DateText(2, 3, "/", 4) \o <<" ", "C", "O", "F", "F", "E", "E", " ", "S", "H", "O", "P", " ", "4", ".", "5", "0">>

PdfText == Request(NamePdf, PdfContent(<<<<BannerLine, PdfTextLine>>>>), FALSE)

\* A scanned PDF of two pages and an image, with a key.
PdfScanned == Request(NamePdf, PdfContent(<<<<>>, <<>>>>), TRUE)

Png == Request(NamePng, PngContent, TRUE)

PngNoKey == Request(NamePng, PngContent, FALSE)

Ofx ==
    Request(NameOfx,
            OfxContent(OfxDocument(<<[closed |-> TRUE, dtposted |-> Text20240115,
                                      trnamt |-> TextMinus4599, naming |-> "name"]>>, TRUE)),
            FALSE)

\* Files that take a call through every step.
BaseRequests == {CsvAmbiguous, PdfText, PdfScanned, Png}

InitParse(requests, workers, calls) ==
    /\ detected_date_format = NoHint
    /\ uploads \in [Workers -> SeqsUpTo(requests, calls)]
    /\ \A w \in Workers \ workers : uploads[w] = <<>>
    /\ call = [w \in Workers |-> IdleCall]
    /\ returned = [w \in Workers |-> <<>>]
    /\ IdleBut("parse")

(***************************************************************************)
(* Concurrent calls: every worker makes at most one call.                  *)
(***************************************************************************)
ConcurrentRequests == BaseRequests \cup {CsvMonthFirst, CsvDayFirst}

InitConcurrent == InitParse(ConcurrentRequests, Workers, 1)

SpecConcurrent == InitConcurrent /\ [][Next]_vars

(***************************************************************************)
(* Calls in sequence: one worker makes up to MaxCalls calls.               *)
(***************************************************************************)
MaxCalls == 3

SequentialRequests == {CsvAmbiguous, CsvMonthFirst, PdfText, Png, PngNoKey, Ofx}

InitSequential == InitParse(SequentialRequests, {1}, MaxCalls)

SpecSequential == InitSequential /\ [][Next]_vars

\* The calls that have returned: the worker, the request and the result.
Returned ==
    UNION { { [w |-> w, req |-> returned[w][i].req, result |-> returned[w][i].result] :
                  i \in 1..Len(returned[w]) } : w \in Workers }

\* The call does not go on to the AI parser.
WithoutAi(req) == ~parse_statement(req, NoHint).ai

(***************************************************************************)
(* C1.  When parse_statement calls for different documents run             *)
(* concurrently, their steps interleaved, each call returns exactly the    *)
(* transactions (the same resolved dates in particular) that it returns    *)
(* when it runs alone: the hint computed for one document never resolves a *)
(* date of another.  Calls that go on to the AI parser, whose result is    *)
(* what the model answers, are left out.                                   *)
(***************************************************************************)
C1_ConcurrentAsAlone ==
    \A e \in Returned :
        WithoutAi(e.req) =>
            e.result.transactions = parse_statement(e.req, NoHint).result.transactions

(***************************************************************************)
(* C2.  In a sequence of parse_statement calls that do not use the AI      *)
(* parser, two calls with the same file name and the same content return   *)
(* the same result, whatever was parsed before or between them.            *)
(***************************************************************************)
C2_Idempotent ==
    \A w \in Workers :
        \A i, j \in 1..Len(returned[w]) :
            (returned[w][i].req = returned[w][j].req /\ WithoutAi(returned[w][i].req))
                => returned[w][i].result = returned[w][j].result

(***************************************************************************)
(* C6.  Every result parse_statement returns without transactions has an   *)
(* error: a result with no transaction and no error is never returned,     *)
(* whatever the file type and whether a key is given or not.               *)
(***************************************************************************)
C6_NoSilentEmpty ==
    \A e \in Returned : e.result.transactions = <<>> => e.result.errors # <<>>

(***************************************************************************)
(* CSV files with a header row: one call of one worker.  The data rows     *)
(* differ in their date cell, or in what makes the parser skip them; the   *)
(* long files have more rows than the hint samples.                        *)
(***************************************************************************)
MaxRows == 3

AmbiguousDates == { DateText(2, 3, sep, yw) : sep \in {"/", "-", "."}, yw \in {4, 2} }

DayFirstDate == DateText(13, 1, "/", 4)

MonthFirstDate == DateText(1, 13, "/", 4)

DateCells == AmbiguousDates \cup {DayFirstDate, MonthFirstDate}

DateRequests ==
    { CsvRequest([k \in 1..Len(dates) |-> DataRow(dates[k])]) :
          dates \in SeqsUpTo(DateCells, MaxRows) }

GoodRow == DataRow(DateText(2, 3, "/", 4))

SkippedRows ==
    {<<DateText(31, 2, "/", 4), TextCoffee, TextMinus450>>,
     <<DateText(2, 3, "/", 4), <<" ">>, TextMinus450>>,
     <<DateText(2, 3, "/", 4), TextCoffee, <<"0", ".", "0", "0">>>>,
     <<DateText(2, 3, "/", 4), TextCoffee, <<"a", "b", "c">>>>,
     <<DateText(2, 3, "/", 4), TextCoffee, <<>>>>,
     <<DateText(2, 3, "/", 4)>>}

SkipRequests == { CsvRequest(rows) : rows \in SeqsUpTo(SkippedRows \cup {GoodRow}, MaxRows) }

Filler(n) == [k \in 1..n |-> GoodRow]

LongRequests ==
    {CsvRequest(<<DataRow(MonthFirstDate)>> \o Filler(SampleRows - 1)
                    \o <<DataRow(DayFirstDate)>>),
     CsvRequest(Filler(SampleRows) \o <<DataRow(DayFirstDate)>>),
     CsvRequest(Filler(SampleRows) \o <<DataRow(MonthFirstDate), DataRow(DayFirstDate)>>)}

CsvRequests == BaseRequests \cup DateRequests \cup SkipRequests \cup LongRequests

InitCsv == InitParse(CsvRequests, {1}, 1)

SpecCsv == InitCsv /\ [][Next]_vars

\* The calls that have returned from the CSV parser with its columns found.
ReturnedCsv ==
    { e \in Returned :
          /\ UsesCsv(detect_file_type(e.req.filename, e.req.content))
          /\ CsvLayout(e.req.content.rows, NoHint).error = "" }

\* The date cells of the data rows of a CSV file, "" for a row too short.
DateCellsOf(req) ==
    LET layout == CsvLayout(req.content.rows, NoHint)
    IN  [k \in 1..Len(layout.data_rows) |->
            IF layout.date_col <= Len(layout.data_rows[k])
            THEN layout.data_rows[k][layout.date_col] ELSE <<>>]

\* The date cell of the row a transaction comes from.
DateCellOf(req, txn) ==
    DateCellsOf(req)[txn.row - CsvLayout(req.content.rows, NoHint).header_idx]

DayFirstOnly(cell) == LeadingParts(cell) # None /\ LeadingParts(cell)[1].first > 12

MonthFirstOnly(cell) ==
    /\ LeadingParts(cell) # None
    /\ LeadingParts(cell)[1].first <= 12
    /\ LeadingParts(cell)[1].second > 12

Ambiguous(cell) ==
    /\ LeadingParts(cell) # None
    /\ LeadingParts(cell)[1].first \in 1..12
    /\ LeadingParts(cell)[1].second \in 1..12

ResolvedDayFirst(txn, cell) ==
    txn.date.d = LeadingParts(cell)[1].first /\ txn.date.m = LeadingParts(cell)[1].second

\* Every transaction that comes from an ambiguous date has it day-first.
AllDayFirst(e) ==
    \A i \in 1..Len(e.result.transactions) :
        LET txn == e.result.transactions[i]
        IN  Ambiguous(DateCellOf(e.req, txn)) => ResolvedDayFirst(txn, DateCellOf(e.req, txn))

HasDayFirstOnly(req) ==
    \E k \in 1..Len(DateCellsOf(req)) : DayFirstOnly(DateCellsOf(req)[k])

\* Among the first 20 data rows, no date cell that can only be month-first
\* (second component above 12, first not) comes before the first date cell
\* that can only be day-first.
NoEarlierMonthFirst(req) ==
    LET cells == DateCellsOf(req)
    IN  \A k \in 1..Min2(Len(cells), SampleRows) :
            MonthFirstOnly(cells[k]) => \E j \in 1..(k - 1) : DayFirstOnly(cells[j])

\* C4 as stated: one unambiguous day-first date anywhere in the date column
\* makes every ambiguous date of the file day-first.
C4_Original == \A e \in ReturnedCsv : HasDayFirstOnly(e.req) => AllDayFirst(e)

(***************************************************************************)
(* C4.  In a CSV file whose date column holds a date that can only be      *)
(* day-first (first component above 12), at whatever row, every ambiguous  *)
(* numeric date that yields a transaction is resolved day-first (first     *)
(* component the day, second the month), provided that among the first 20  *)
(* data rows no date cell that can only be month-first (second component   *)
(* above 12, first not) comes before the first cell that can only be       *)
(* day-first.                                                              *)
(***************************************************************************)
C4_DayFirstForced ==
    \A e \in ReturnedCsv :
        (HasDayFirstOnly(e.req) /\ NoEarlierMonthFirst(e.req)) => AllDayFirst(e)

\* A file whose first row is ambiguous (2 March or 3 February) and whose
\* day-first-only date comes after it has returned with 2 March.
C4_Witness ==
    \E e \in ReturnedCsv :
        /\ NoEarlierMonthFirst(e.req)
        /\ Len(DateCellsOf(e.req)) >= 2
        /\ Ambiguous(DateCellsOf(e.req)[1])
        /\ \E k \in 2..Len(DateCellsOf(e.req)) : DayFirstOnly(DateCellsOf(e.req)[k])
        /\ \E i \in 1..Len(e.result.transactions) :
               /\ e.result.transactions[i].row = 2
               /\ e.result.transactions[i].date = [y |-> 2024, m |-> 3, d |-> 2]

\* The data rows the row loop skips for their date, description or amount.
SkippedRowsOf(req) ==
    LET layout == CsvLayout(req.content.rows, NoHint)
        max_col == Max2(Max2(layout.date_col, layout.desc_col),
                        Max2(layout.amount_col, Max2(layout.debit_col, layout.credit_col)))
    IN  { k \in 1..Len(layout.data_rows) :
              /\ Len(layout.data_rows[k]) >= max_col
              /\ CsvRowTxn(layout, k, NoHint) = None }

RowWarnings(result) == SelectSeq(result.warnings, LAMBDA m : m # WarnNoHeader)

(***************************************************************************)
(* C7.  In the CSV parser every data row that is skipped because its date, *)
(* description or amount fails to resolve, or because its amount is zero,  *)
(* adds one warning to the result, and the rows after it are still         *)
(* processed: every row that resolves has its transaction.                 *)
(***************************************************************************)
C7_SkippedRowsWarn ==
    \A e \in ReturnedCsv :
        LET layout == CsvLayout(e.req.content.rows, NoHint)
        IN  /\ Len(RowWarnings(e.result)) = Cardinality(SkippedRowsOf(e.req))
            /\ \A k \in 1..Len(layout.data_rows) :
                   CsvRowTxn(layout, k, NoHint) # None =>
                       \E i \in 1..Len(e.result.transactions) :
                           e.result.transactions[i].row = layout.header_idx + k

(***************************************************************************)
(* Headerless CSV files with the columns ID, Date, Memo, Amount and        *)
(* Balance in any order: one call of one worker.  order[r] is the column   *)
(* of role r, the roles numbered in that order.                            *)
(***************************************************************************)
MaxInferRows == 2

Roles == 1..5

ColumnOrders == { order \in [Roles -> Roles] : \A r1, r2 \in Roles : order[r1] = order[r2] => r1 = r2 }

IdTexts == {<<"1", "0", "0", "1">>, <<"T", "X", "1">>}

InferDate == DateText(15, 1, "/", 4)

InferBalance == <<"1", "0", "0", "0", ".", "0", "0">>

InferAmounts == {TextMinus4599, <<"1", "2", ".", "5", "0">>, <<"(", "4", "5", ".", "9", "9", ")">>}

InferRow(order, id, amount) ==
    LET values == <<id, InferDate, TextCoffee, amount, InferBalance>>
    IN  [c \in Roles |-> values[CHOOSE r \in Roles : order[r] = c]]

InferRequest(order, id, amounts) ==
    Request(NameCsv,
            CsvContent([k \in 1..Len(amounts) |-> InferRow(order, id, amounts[k])]),
            FALSE)

\* A file whose only minus-signed amount comes after the rows the inference
\* samples, with the Balance column before the Amount column.
InferLong ==
    InferRequest(<<1, 2, 3, 5, 4>>, <<"1", "0", "0", "1">>,
                 [k \in 1..(SampleRows + 1) |->
                     IF k <= SampleRows THEN <<"1", "2", ".", "5", "0">> ELSE TextMinus4599])

InferRequests ==
    { InferRequest(order, id, amounts) :
          order \in ColumnOrders, id \in IdTexts,
          amounts \in SeqsUpTo(InferAmounts, MaxInferRows) }
        \cup {InferLong}

InitInfer == InitParse(BaseRequests \cup InferRequests, {1}, 1)

SpecInfer == InitInfer /\ [][Next]_vars

\* The column of the first row whose cell is one of texts, 0 when none is.
ColumnOf(req, texts) ==
    LET row == req.content.rows[1]
        hits == { c \in 1..Len(row) : row[c] \in texts }
    IN  IF hits = {} THEN 0 ELSE CHOOSE c \in hits : TRUE

\* A headerless file of at least two rows with the five columns.
FiveColumns(req) ==
    /\ UsesCsv(detect_file_type(req.filename, req.content))
    /\ Len(req.content.rows) >= 2
    /\ Len(req.content.rows[1]) = 5
    /\ ColumnOf(req, IdTexts) # 0
    /\ ColumnOf(req, {InferDate}) # 0
    /\ ColumnOf(req, {TextCoffee}) # 0
    /\ ColumnOf(req, InferAmounts) # 0
    /\ ColumnOf(req, {InferBalance}) # 0

\* The calls on such a file that are past the inference of the columns.
Inferred == { w \in Workers : call[w].pc \in {"csv_hint", "csv_rows", "done"} /\ FiveColumns(call[w].req) }

RolesInferred(w) ==
    /\ call[w].layout.date_col = ColumnOf(call[w].req, {InferDate})
    /\ call[w].layout.desc_col = ColumnOf(call[w].req, {TextCoffee})
    /\ call[w].layout.amount_col = ColumnOf(call[w].req, InferAmounts)
    /\ call[w].layout.amount_col # ColumnOf(call[w].req, {InferBalance})

NumericId(req) == AllDigits(req.content.rows[1][ColumnOf(req, IdTexts)])

\* One of the first 20 rows has an amount written with a minus sign.
MinusInSample(req) ==
    \E k \in 1..Min2(Len(req.content.rows), SampleRows) :
        Head(req.content.rows[k][ColumnOf(req, InferAmounts)]) = "-"

\* C5 as stated: any column order, any rows of amounts.
C5_Original == \A w \in Inferred : RolesInferred(w)

(***************************************************************************)
(* C5.  For every headerless CSV file of at least two rows whose columns   *)
(* are a numeric ID, Date, Memo, Amount and an all-positive Balance, in    *)
(* any column order, and in which one of the first 20 rows has an amount   *)
(* written with a minus sign, the inference gives the date role to the     *)
(* Date column, the description role to the Memo column and the amount     *)
(* role to the Amount column, never to the Balance column.                 *)
(***************************************************************************)
C5_ColumnsInferred ==
    \A w \in Inferred :
        (NumericId(call[w].req) /\ MinusInSample(call[w].req)) => RolesInferred(w)

\* A call has inferred the roles of a file whose ID and Balance columns both
\* come before its Amount column.
C5_Witness ==
    \E w \in Inferred :
        /\ NumericId(call[w].req)
        /\ MinusInSample(call[w].req)
        /\ ColumnOf(call[w].req, IdTexts) < ColumnOf(call[w].req, InferAmounts)
        /\ ColumnOf(call[w].req, {InferBalance}) < ColumnOf(call[w].req, InferAmounts)
        /\ call[w].layout.amount_col = ColumnOf(call[w].req, InferAmounts)
        /\ call[w].layout.date_col = ColumnOf(call[w].req, {InferDate})
        /\ call[w].layout.desc_col = ColumnOf(call[w].req, {TextCoffee})

\* The transactions of the returned results that the AI parser made, and
\* those that another parser made.
AiTransactions ==
    UNION { { e.result.transactions[i] : i \in 1..Len(e.result.transactions) } :
                e \in { r \in Returned : r.result.parser_used = "ai" } }

OtherTransactions ==
    UNION { { [date |-> e.result.transactions[i].date,
               description |-> e.result.transactions[i].description,
               amount |-> e.result.transactions[i].amount,
               confidence |-> e.result.transactions[i].confidence] :
                  i \in 1..Len(e.result.transactions) } :
                e \in { r \in Returned : r.result.parser_used # "ai" } }

(***************************************************************************)
(* C11.  Every transaction of the AI parser has a confidence strictly      *)
(* lower than that of every transaction of another parser (CSV, OFX, PDF   *)
(* text).                                                                  *)
(***************************************************************************)
C11_AiLessConfident ==
    \A a \in AiTransactions : \A t \in OtherTransactions : a.confidence < t.confidence

(***************************************************************************)
(* parse_with_ai (772-821) as a function of what the model answers to the  *)
(* requests made of it, in their order.  One request is made for an image  *)
(* file and one per rendered page for a PDF (no page when the PDF cannot   *)
(* be rendered); an answer past those is what a further request would get. *)
(***************************************************************************)
NumberDateRecord == JObject(JNum(20240115), JNum(-4599), JStr(TextAmazon))

NotAnObject == JNum(-4599)

ImageRecords == AnswerRecords \cup {NumberDateRecord, NotAnObject}

\* What the model may answer for an image.
Responses ==
    {Raised, NotJson, JNull, JObject(Missing, Missing, Missing)}
        \cup { JArray(items) : items \in SeqsUpTo(ImageRecords, MaxRecords) }

MaxPages == 2

\* 800-806: the loop over the pages, from the k-th on.
RECURSIVE AiPages(_, _, _)
AiPages(responses, k, result) ==
    IF k > Len(responses) THEN result
    ELSE AiPages(responses, k + 1, AiAddPage(result, k, parse_single_image(responses[k])))

\* 772-821
parse_with_ai(file_type, responses) ==
    IF file_type = "application/pdf"
    THEN (IF responses = <<>> THEN [AiBase EXCEPT !.errors = <<ErrConvert>>]
          ELSE AiPdfEnd(AiPages(responses, 1, AiBase)))
    ELSE parse_single_image(responses[1])

InitAi ==
    /\ IdleBut("ai")
    /\ ai_file_type \in {"image/png", "application/pdf"}
    /\ ai_responses \in SeqsUpTo(Responses, MaxPages)
    /\ ai_file_type = "image/png" => Len(ai_responses) >= 1
    /\ ai_result = NewResult
    /\ ai_done = FALSE

ParseWithAi ==
    /\ ~ai_done
    /\ ai_result' = parse_with_ai(ai_file_type, ai_responses)
    /\ ai_done' = TRUE
    /\ UNCHANGED <<ai_file_type, ai_responses, amountVars, recurringVars, ofxVars, parseVars,
                   retry>>

NextAi == ParseWithAi

SpecAi == InitAi /\ [][NextAi]_vars

\* A record of the answer with a date that parses, a numeric amount and a
\* text description, and the transaction it stands for.
ValidRecord(r) ==
    /\ r.j = "object"
    /\ r.items[1].j = "str"
    /\ Strptime(r.items[1].text, Fmt("Y", <<"-">>, "m", <<"-">>, "d")) # None
    /\ r.items[2].j = "num"
    /\ r.items[3].j = "str"

RecordTxn(r) ==
    AiTxn(Strptime(r.items[1].text, Fmt("Y", <<"-">>, "m", <<"-">>, "d"))[1],
          r.items[3].text, r.items[2].num)

ValidRecords(answer) == SelectSeq(answer.items, ValidRecord)

(* C12: when the model answers an image with a JSON array, every valid     *)
(* record (parsable date, numeric amount, text description) becomes a      *)
(* transaction, in order, every other record is dropped with one warning,  *)
(* and the result has no errors entry.                                     *)
C12_RecordsKeptOrWarned ==
    (ai_done /\ ai_file_type = "image/png" /\ ai_responses[1].j = "array") =>
        /\ ai_result.transactions =
               [i \in 1..Len(ValidRecords(ai_responses[1])) |->
                   RecordTxn(ValidRecords(ai_responses[1])[i])]
        /\ Len(SelectSeq(ai_result.warnings, LAMBDA m : m = WarnAiTransaction)) =
               Len(ai_responses[1].items) - Len(ValidRecords(ai_responses[1]))
        /\ ai_result.errors = <<>>

\* A page whose request to the model raises, or whose answer is not JSON.
FailedPage(response) == response.j \in {"exception", "invalid"}

PageTransactions(response) ==
    IF FailedPage(response) THEN <<>> ELSE parse_single_image(response).transactions

RECURSIVE PagesTransactions(_, _)
PagesTransactions(responses, k) ==
    IF k > Len(responses) THEN <<>>
    ELSE PageTransactions(responses[k]) \o PagesTransactions(responses, k + 1)

(* C13: on the multi-page AI path of a PDF, a page whose request raises or *)
(* whose answer is not parsable adds only a warning naming the page; the   *)
(* transactions of the other pages are all returned, in page order; errors *)
(* is empty whenever some page yielded a transaction; and the call returns *)
(* a result of the AI parser whatever the client did.                      *)
C13_FailedPageOnlyWarns ==
    (ai_done /\ ai_file_type = "application/pdf" /\ ai_responses # <<>>) =>
        /\ ai_result.parser_used = "ai"
        /\ ai_result.transactions = PagesTransactions(ai_responses, 1)
        /\ \A k \in 1..Len(ai_responses) :
               FailedPage(ai_responses[k]) =>
                   /\ \E i \in 1..Len(ai_result.warnings) :
                          ai_result.warnings[i] = PageError(k)
                   /\ \A i \in 1..Len(ai_result.errors) :
                          ai_result.errors[i] = ErrNoPdfTransactions
        /\ ai_result.transactions # <<>> => ai_result.errors = <<>>

C13_Witness ==
    /\ ai_done
    /\ ai_file_type = "application/pdf"
    /\ Len(ai_responses) = 2
    /\ ai_responses[1] = Raised
    /\ ai_responses[2] = JArray(<<GoodRecord>>)
    /\ Len(ai_result.transactions) = 1
    /\ ai_result.warnings = <<PageError(1)>>

(***************************************************************************)
(* Calls without a key: images, and PDFs whose text gives no transaction.  *)
(***************************************************************************)
\* A page of text with no transaction in it.
PdfBannerNoKey == Request(NamePdf, PdfContent(<<<<BannerLine>>>>), FALSE)

PdfScannedNoKey == Request(NamePdf, PdfContent(<<<<>>, <<>>>>), FALSE)

\* A transaction line alone: too short a text to count as extracted.
PdfShortNoKey == Request(NamePdf, PdfContent(<<<<PdfTextLine>>>>), FALSE)

\* A file named .pdf that PyMuPDF cannot open.
PdfBrokenNoKey == Request(NamePdf, Content("none", <<>>, <<>>, FALSE, <<>>), FALSE)

\* An image known by its magic bytes only.
JpegNoKey == Request(<<"s">>, Content("jpeg", <<>>, <<>>, FALSE, <<>>), FALSE)

NoKeyRequests ==
    {PngNoKey, JpegNoKey, PdfBannerNoKey, PdfScannedNoKey, PdfShortNoKey, PdfBrokenNoKey}

MaxNoKeyCalls == 2

InitNoKey == InitParse(BaseRequests \cup NoKeyRequests, {1}, MaxNoKeyCalls)

SpecNoKey == InitNoKey /\ [][Next]_vars

UsesImage(file_type) == file_type \in {"image/png", "image/jpeg", "image/gif", "image/webp"}

\* The text of the PDF is too short to be parsed, or gives no transaction.
NoTextTransaction(req) ==
    \/ StrippedLen(extract_pdf_text(req.content)) <= MinTextLen
    \/ parse_pdf_text(extract_pdf_text(req.content), NoHint).transactions = <<>>

\* The call needs the AI parser: an image, or a PDF without text transactions.
NeedsAi(req) ==
    \/ UsesImage(detect_file_type(req.filename, req.content))
    \/ /\ UsesPdf(detect_file_type(req.filename, req.content))
       /\ NoTextTransaction(req)

ConfigureAiMessages == {ErrImageNeedsKey, ErrPdfText, ErrScannedPdf}

(* C14: without an AI key, parse_statement on an image, or on a PDF whose  *)
(* text gives no transaction, returns no transaction and an error that     *)
(* tells the user to configure AI, and no request is made to the model:    *)
(* the call is never at an AI step and the result is not the AI parser's.  *)
C14_NoKeyNoAi ==
    /\ \A w \in Workers :
           (call[w].pc # "idle" /\ ~call[w].req.openai_api_key) => call[w].pc # "ai"
    /\ \A e \in Returned :
           (~e.req.openai_api_key /\ NeedsAi(e.req)) =>
               /\ e.result.transactions = <<>>
               /\ e.result.errors # <<>>
               /\ \E i \in 1..Len(e.result.errors) :
                      e.result.errors[i] \in ConfigureAiMessages
               /\ e.result.parser_used # "ai"

C14_Witness ==
    /\ Len(returned[1]) = 2
    /\ returned[1][1].req = PngNoKey
    /\ returned[1][1].result.errors = <<ErrImageNeedsKey>>
    /\ returned[1][2].req = PdfBannerNoKey
    /\ returned[1][2].result.errors = <<ErrPdfText>>

(***************************************************************************)
(* detect_file_type over file names and contents.                          *)
(***************************************************************************)
FileNames ==
    { NameCsv, NamePdf, NamePng, NameOfx,
      <<"s", ".", "q", "f", "x">>, <<"s", ".", "j", "p", "g">>,
      <<"s", ".", "j", "p", "e", "g">>, <<"s", ".", "g", "i", "f">>,
      <<"s", ".", "w", "e", "b", "p">>, <<"S", ".", "P", "D", "F">>,
      <<"s", ".", "t", "x", "t">>, <<"s">>, <<"c", "s", "v">> }

\* A GIF file: its leading bytes (GIF8) are none of those the code knows.
GifContent == Content("gif", <<>>, <<>>, FALSE, <<>>)

\* A delimited file with <OFX> in a cell beyond the first 1000 bytes.
LateMarkupContent == Content("ofx_late", CsvAmbiguous.content.rows, <<>>, FALSE, <<>>)

FileContents ==
    { CsvAmbiguous.content, PdfText.content, PngContent, JpegNoKey.content,
      GifContent, Ofx.content, LateMarkupContent }

DetectRequests == { Request(name, content, FALSE) : name \in FileNames, content \in FileContents }

InitDetect == InitParse(BaseRequests \cup DetectRequests, {1}, 1)

SpecDetect == InitDetect /\ [][Next]_vars

KnownLabels ==
    { "text/csv", "application/x-ofx", "application/x-qfx", "application/pdf",
      "image/png", "image/jpeg", "image/gif", "image/webp" }

Extensions ==
    { <<<<".", "c", "s", "v">>, "text/csv">>,
      <<<<".", "o", "f", "x">>, "application/x-ofx">>,
      <<<<".", "q", "f", "x">>, "application/x-qfx">>,
      <<<<".", "p", "d", "f">>, "application/pdf">>,
      <<<<".", "p", "n", "g">>, "image/png">>,
      <<<<".", "j", "p", "g">>, "image/jpeg">>,
      <<<<".", "j", "p", "e", "g">>, "image/jpeg">>,
      <<<<".", "g", "i", "f">>, "image/gif">>,
      <<<<".", "w", "e", "b", "p">>, "image/webp">> }

\* The labels of the extensions the name ends with (case ignored).
ExtensionLabels(filename) ==
    { e[2] : e \in { x \in Extensions : EndsWith(Lower(filename), x[1]) } }

MagicLabel(magic) ==
    CASE magic = "pdf" -> "application/pdf"
      [] magic = "png" -> "image/png"
      [] magic = "jpeg" -> "image/jpeg"
      [] magic = "gif" -> "image/gif"
      [] OTHER -> "text/csv"

\* The label is decided by the extension, else by the magic bytes of the
\* formats in sniffed, else by markup in the first 1000 bytes, else it is
\* the delimited-text label.
DetectedInOrder(req, sniffed) ==
    /\ detect_file_type(req.filename, req.content) \in KnownLabels
    /\ ExtensionLabels(req.filename) # {} =>
           detect_file_type(req.filename, req.content) \in ExtensionLabels(req.filename)
    /\ (ExtensionLabels(req.filename) = {} /\ req.content.magic \in sniffed) =>
           detect_file_type(req.filename, req.content) = MagicLabel(req.content.magic)
    /\ (ExtensionLabels(req.filename) = {} /\ req.content.magic \notin sniffed) =>
           detect_file_type(req.filename, req.content) =
               (IF req.content.magic = "ofx" THEN "application/x-ofx" ELSE "text/csv")

\* The requests of the calls made so far.
Called ==
    { e.req : e \in Returned } \cup { call[w].req : w \in { v \in Workers : call[v].pc # "idle" } }

(* C15, as stated: detect_file_type returns a known label for every name   *)
(* and content, by the extension first, else by the leading magic bytes of *)
(* the portable-document and raster-image formats (PNG, JPEG, GIF), else   *)
(* by markup in the first 1000 bytes, else delimited-text.                 *)
C15_Original == \A req \in Called : DetectedInOrder(req, {"pdf", "png", "jpeg", "gif"})

(* C15, amended: as above, with the magic bytes of PDF, PNG and JPEG only: *)
(* a GIF or WebP file is an image by its extension alone, and is labelled  *)
(* delimited-text when its name has no known extension.                    *)
C15_DetectedInOrder == \A req \in Called : DetectedInOrder(req, {"pdf", "png", "jpeg"})

C15_Witness ==
    /\ Request(<<"s">>, GifContent, FALSE) \in Called
    /\ \E e \in Returned :
           /\ e.req = Request(<<"s">>, GifContent, FALSE)
           /\ e.result.parser_used = "csv"
           /\ detect_file_type(e.req.filename, e.req.content) = "text/csv"

\* The values of the module-level hint.
HintValues == {NoHint, "DMY", "MDY"}

\* 733-769: what parse_pdf_statement may return for the content.
PdfStatementResults(req) ==
    IF StrippedLen(extract_pdf_text(req.content)) > MinTextLen
    THEN { IF parse_pdf_text(extract_pdf_text(req.content), d).transactions # <<>>
           THEN parse_pdf_text(extract_pdf_text(req.content), d)
           ELSE [parse_pdf_text(extract_pdf_text(req.content), d)
                     EXCEPT !.errors = Append(@, ErrPdfText)] : d \in HintValues }
    ELSE { [NewResult EXCEPT !.errors = <<ErrScannedPdf>>] }

\* What the parser of the detected format may return for the request.
ParserResults(req) ==
    IF UsesCsv(detect_file_type(req.filename, req.content))
    THEN { parse_csv_statement(req.content.rows, d).result : d \in HintValues }
    ELSE IF UsesOfx(detect_file_type(req.filename, req.content))
    THEN { parse_ofx_statement(req.content.tags) }
    ELSE IF UsesPdf(detect_file_type(req.filename, req.content))
    THEN (IF req.openai_api_key
          THEN { parse_with_ai("application/pdf", responses) :
                     responses \in SeqsUpTo(Answers, convert_pdf_to_images(req.content)) }
               \cup PdfStatementResults(req)
          ELSE PdfStatementResults(req))
    ELSE { parse_with_ai(detect_file_type(req.filename, req.content), <<answer>>) :
               answer \in Answers }

(* C16: what parse_statement returns is, field for field, a result of the  *)
(* parser of the detected format (CSV, OFX, PDF or image parser) on the    *)
(* content: parse_statement builds no result of its own.                   *)
C16_PureDispatch == \A e \in Returned : e.result \in ParserResults(e.req)

(* C17: a parse_statement call that does not go to the AI parser leaves    *)
(* the module-level state as it found it: no step of such a call changes   *)
(* the module-level date-format hint (the one module-level variable that   *)
(* is ever assigned; no step of the program writes it back).               *)
C17_NoModuleStateChange ==
    [][\A w \in Workers :
           (call[w].pc # "idle" /\ call'[w] # call[w] /\ WithoutAi(call[w].req)) =>
               detected_date_format' = detected_date_format]_vars

\* The first row names a date, a description and an amount column of the
\* generic registry, and no bank.
GenericHeader(rows) ==
    /\ rows # <<>>
    /\ detect_bank_from_csv(rows[1]) = "generic"
    /\ find_column(rows[1], Config_generic.date_columns) # NoCol
    /\ find_column(rows[1], Config_generic.description_columns) # NoCol
    /\ find_column(rows[1], Config_generic.amount_columns) # NoCol

\* The cell of a row under the header name of the given registry list.
CellUnder(rows, row, names) ==
    IF find_column(rows[1], names) <= Len(row) THEN row[find_column(rows[1], names)] ELSE <<>>

\* The row has a date that resolves, a description and a non-zero amount.
RowResolves(rows, row) ==
    /\ parse_date(CellUnder(rows, row, Config_generic.date_columns), NoHint, NoHint) # None
    /\ Strip(CellUnder(rows, row, Config_generic.description_columns)) # <<>>
    /\ parse_amount(CellUnder(rows, row, Config_generic.amount_columns)) \notin {None, Some(0)}

AllRowsResolve(rows) == \A k \in 2..Len(rows) : RowResolves(rows, rows[k])

\* The transaction of the k-th row of the file, its date read under the
\* hint of the file.
ExpectedTxn(rows, k) ==
    RowTxn(parse_date(CellUnder(rows, rows[k], Config_generic.date_columns), NoHint,
                      set_date_format_hint(Tail(rows),
                                           find_column(rows[1], Config_generic.date_columns)))[1],
           Strip(CellUnder(rows, rows[k], Config_generic.description_columns)),
           parse_amount(CellUnder(rows, rows[k], Config_generic.amount_columns))[1],
           k)

OnePerRow(e) ==
    /\ e.result.transactions =
           [i \in 1..(Len(e.req.content.rows) - 1) |-> ExpectedTxn(e.req.content.rows, i + 1)]
    /\ e.result.errors = <<>>
    /\ e.result.bank_detected = Some("generic")

ReturnedGeneric ==
    { e \in Returned :
          /\ UsesCsv(detect_file_type(e.req.filename, e.req.content))
          /\ GenericHeader(e.req.content.rows)
          /\ AllRowsResolve(e.req.content.rows) }

(* C18, as stated: a CSV file whose first row names a date, a description  *)
(* and an amount column of the generic registry, and whose every data row  *)
(* has a resolvable date, a description and a non-zero amount, gives one   *)
(* transaction per data row in row order, no error and the generic label.  *)
C18_Original == \A e \in ReturnedGeneric : OnePerRow(e)

(* C18, amended: the same for a file with at least one data row; a file of *)
(* the header alone gives the error of an empty file.                      *)
C18_OnePerRow ==
    \A e \in ReturnedGeneric :
        IF Len(e.req.content.rows) >= 2 THEN OnePerRow(e)
        ELSE e.result.transactions = <<>> /\ e.result.errors = <<ErrEmptyCsv>>

C18_Witness ==
    \E e \in ReturnedGeneric :
        /\ Len(e.req.content.rows) = MaxRows + 1
        /\ e.req.content.rows[2] # e.req.content.rows[3]
        /\ Len(e.result.transactions) = MaxRows
        /\ e.result.errors = <<>>

\* The hint set_date_format_hint computes for the file.
FileHint(req) ==
    set_date_format_hint(CsvLayout(req.content.rows, NoHint).data_rows,
                         CsvLayout(req.content.rows, NoHint).date_col)

ResolvedMonthFirst(txn, cell) ==
    txn.date.m = LeadingParts(cell)[1].first /\ txn.date.d = LeadingParts(cell)[1].second

\* The transactions of the k-th data row of the file.
TxnsOfRow(e, k) ==
    { i \in 1..Len(e.result.transactions) :
          e.result.transactions[i].row = CsvLayout(e.req.content.rows, NoHint).header_idx + k }

(* C19 (numeric tokens): in a file read under the month-first hint every   *)
(* ambiguous numeric date (both leading components at most 12), whatever   *)
(* its separator ("/", "-" or ".") and the width of its year, resolves     *)
(* with its first component as the month, and under the day-first hint     *)
(* with its first component as the day: the row of such a date, when it    *)
(* has a description and a non-zero amount, gives a transaction so dated.  *)
C19_HintDecidesAmbiguous ==
    \A e \in ReturnedCsv :
        \A k \in 1..Len(DateCellsOf(e.req)) :
            (/\ Ambiguous(DateCellsOf(e.req)[k])
             /\ e.req.content.rows[k + 1] = DataRow(DateCellsOf(e.req)[k])) =>
                /\ TxnsOfRow(e, k) # {}
                /\ \A i \in TxnsOfRow(e, k) :
                       IF FileHint(e.req) = "MDY"
                       THEN ResolvedMonthFirst(e.result.transactions[i], DateCellsOf(e.req)[k])
                       ELSE ResolvedDayFirst(e.result.transactions[i], DateCellsOf(e.req)[k])

\* The sampled rows whose date cell disambiguates.
Deciders(cells) ==
    { k \in 1..Min2(Len(cells), SampleRows) : DayFirstOnly(cells[k]) \/ MonthFirstOnly(cells[k]) }

FirstDecider(cells) == CHOOSE k \in Deciders(cells) : \A j \in Deciders(cells) : k <= j

\* What the first disambiguating cell among the first 20 says, day-first
\* when there is none.
HintOfSample(cells) ==
    IF Deciders(cells) = {} THEN "DMY"
    ELSE IF DayFirstOnly(cells[FirstDecider(cells)]) THEN "DMY"
    ELSE "MDY"

(* C20: the hint a CSV file leaves is computed from the date cells of its  *)
(* first 20 data rows at most: it is what the first of them that           *)
(* disambiguates says (first component above 12: day-first; else second    *)
(* component above 12: month-first), day-first when none of them does, and *)
(* a date beyond the 20th row does not count.                              *)
C20_HintFromFirstRows ==
    \A e \in ReturnedCsv : detected_date_format = HintOfSample(DateCellsOf(e.req))

\* A file with 20 ambiguous rows and then a month-first date has returned
\* and left the day-first hint.
C20_Witness ==
    \E e \in ReturnedCsv :
        /\ Len(DateCellsOf(e.req)) > SampleRows
        /\ MonthFirstOnly(DateCellsOf(e.req)[SampleRows + 1])
        /\ Deciders(DateCellsOf(e.req)) = {}
        /\ detected_date_format = "DMY"

(***************************************************************************)
(* CSV files with debit and credit columns in place of an amount column.   *)
(***************************************************************************)
TextDebit == <<"D", "e", "b", "i", "t">>

TextCredit == <<"C", "r", "e", "d", "i", "t">>

Text450 == <<"4", ".", "5", "0">>

\* What a debit or credit cell may hold: blank, a number with or without a
\* sign or parentheses, zero, a text.
SideCells ==
    { <<>>, Text450, TextMinus450, <<"(", "4", ".", "5", "0", ")">>,
      <<"0", ".", "0", "0">>, <<"a", "b", "c">> }

MaxSideRows == 2

SideRow(debit, credit) == <<DateText(2, 3, "/", 4), TextCoffee, debit, credit>>

DebitCreditRequests ==
    { Request(NameCsv,
              CsvContent(<<<<TextDate, TextDescription, TextDebit, TextCredit>>>> \o rows),
              FALSE) :
          rows \in { r \in SeqsUpTo({ SideRow(d, c) : d \in SideCells, c \in SideCells },
                                    MaxSideRows) : r # <<>> } }

\* Files with the debit column or the credit column alone.
OneSideRequests ==
    { Request(NameCsv,
              CsvContent(<<<<TextDate, TextDescription, side>>,
                           <<DateText(2, 3, "/", 4), TextCoffee, cell>>>>),
              FALSE) : side \in {TextDebit, TextCredit}, cell \in SideCells }

InitDebitCredit ==
    InitParse(BaseRequests \cup DebitCreditRequests \cup OneSideRequests, {1}, 1)

SpecDebitCredit == InitDebitCredit /\ [][Next]_vars

\* The file has debit and/or credit columns and no amount column.
ReturnedDebitCredit ==
    { e \in ReturnedCsv :
          /\ CsvLayout(e.req.content.rows, NoHint).amount_col = NoCol
          /\ \/ CsvLayout(e.req.content.rows, NoHint).debit_col # NoCol
             \/ CsvLayout(e.req.content.rows, NoHint).credit_col # NoCol }

\* The number a cell of the row resolves to, None when it resolves to none.
CellNumber(row, col) ==
    IF col = NoCol \/ col > Len(row) THEN None ELSE parse_amount(row[col])

NonZero(number) == number # None /\ number # Some(0)

\* The amount the debit and credit cells of a row stand for.
SideAmountIs(amount, debit, credit) ==
    IF NonZero(debit) THEN amount = -Abs(debit[1])
    ELSE IF NonZero(credit) THEN amount = Abs(credit[1])
    ELSE FALSE

\* The source row of a transaction of the file.
SourceRow(e, txn) == e.req.content.rows[txn.row]

(* C21: in a CSV file with debit and/or credit columns and no amount       *)
(* column, the amount of every transaction is -|debit| when the debit cell *)
(* of its row resolves to a non-zero number, else +|credit| when the       *)
(* credit cell does, whatever the sign written in the cell; no transaction *)
(* comes from a row where neither does.                                    *)
C21_DebitThenCredit ==
    \A e \in ReturnedDebitCredit :
        \A i \in 1..Len(e.result.transactions) :
            SideAmountIs(e.result.transactions[i].amount,
                         CellNumber(SourceRow(e, e.result.transactions[i]),
                                    CsvLayout(e.req.content.rows, NoHint).debit_col),
                         CellNumber(SourceRow(e, e.result.transactions[i]),
                                    CsvLayout(e.req.content.rows, NoHint).credit_col))

\* A row with a negative debit and a positive credit has given -4.50, and a
\* row with a negative credit alone has given +4.50.
C21_Witness ==
    \E e \in ReturnedDebitCredit :
        /\ Len(e.req.content.rows) = 3
        /\ e.req.content.rows[2] = SideRow(TextMinus450, Text450)
        /\ e.req.content.rows[3] = SideRow(<<>>, TextMinus450)
        /\ Len(e.result.transactions) = 2
        /\ e.result.transactions[1].amount = -450
        /\ e.result.transactions[2].amount = 450

(***************************************************************************)
(* PDFs by their pages, with a key: a page of text before a scanned page,  *)
(* and scanned documents of one page to one more than are rendered.        *)
(***************************************************************************)
\* The first page holds a transaction in its text, the second is scanned.
PdfMixed == Request(NamePdf, PdfContent(<<<<BannerLine, PdfTextLine>>, <<>>>>), TRUE)

PdfScannedOf(n) == Request(NamePdf, PdfContent([p \in 1..n |-> <<>>]), TRUE)

MaxPdfPages == 6

PagesRequests == {PdfMixed} \cup { PdfScannedOf(n) : n \in 1..MaxPdfPages }

InitPages == InitParse(BaseRequests \cup PagesRequests, {1}, 1)

SpecPages == InitPages /\ [][Next]_vars

\* The pages of the PDF of a request that have no text.
TextlessPages(req) ==
    { p \in 1..Len(req.content.pages) : StrippedLen(req.content.pages[p]) = 0 }

\* The pages a finished call has submitted to the model: the images 1..n of
\* parse_with_ai, none when the call did not reach it.
SubmittedPages(c) == IF c.result.parser_used = "ai" THEN 1..c.n ELSE {}

FinishedPdfCalls ==
    { w \in Workers :
          /\ call[w].pc = "done"
          /\ call[w].req.openai_api_key
          /\ UsesPdf(detect_file_type(call[w].req.filename, call[w].req.content)) }

(* C22: with a key, every page of a PDF that has no extractable text has   *)
(* been submitted to the model when the call is done, also when the text   *)
(* of other pages of the document gave transactions.                       *)
C22_TextlessPagesSubmitted ==
    \A w \in FinishedPdfCalls :
        TextlessPages(call[w].req) \subseteq SubmittedPages(call[w])

(* C23 (submission): when a PDF has gone through the AI parser, the pages  *)
(* submitted to the model, one after the other from the first, are all the *)
(* pages of the document, whatever their number.                           *)
C23_EveryPageSubmitted ==
    \A w \in FinishedPdfCalls :
        call[w].result.parser_used = "ai" =>
            SubmittedPages(call[w]) = 1..Len(call[w].req.content.pages)

(***************************************************************************)
(* ai_insights.py: _retry_with_backoff (52-97).  What the wrapped call     *)
(* does is given invocation by invocation: it returns ("ok"), or raises an *)
(* authentication error ("auth"), a quota error ("quota"), a rate-limit    *)
(* error ("rate_limit") or any other error ("error").  Waits are counted   *)
(* in seconds.                                                             *)
(***************************************************************************)
\* ai_insights.py 42
MAX_RETRIES == 3

\* ai_insights.py 43
INITIAL_RETRY_DELAY == 1

\* ai_insights.py 83
RateLimitWait == 5

CallOutcomes == {"ok", "auth", "quota", "rate_limit", "error"}

\* The values of max_retries of a run.
MaxRetriesArg == MAX_RETRIES

InitRetry ==
    /\ IdleBut("retry")
    /\ \E max_retries \in 0..MaxRetriesArg :
           \E outcomes \in [1..max_retries -> CallOutcomes] :
               retry = [pc |-> "loop", max_retries |-> max_retries, outcomes |-> outcomes,
                        attempt |-> 0, delay |-> INITIAL_RETRY_DELAY,
                        last_exception |-> "", invocations |-> 0, slept |-> <<>>]

\* 58-93: what an iteration does after the call has ended as outcome.
AfterInvocation(r, outcome) ==
    IF outcome = "ok" THEN [r EXCEPT !.pc = "returned"]
    ELSE IF outcome \in {"auth", "quota"}
    THEN [r EXCEPT !.pc = "raised", !.last_exception = outcome]
    ELSE IF outcome = "rate_limit"
    THEN [r EXCEPT !.last_exception = outcome, !.attempt = @ + 1,
                   !.slept = Append(@, RateLimitWait)]
    ELSE IF r.attempt = r.max_retries - 1
    THEN [r EXCEPT !.last_exception = outcome, !.attempt = @ + 1]
    ELSE [r EXCEPT !.last_exception = outcome, !.attempt = @ + 1,
                   !.slept = Append(@, r.delay), !.delay = @ * 2]

\* 58-93: one iteration of the loop.
Attempt ==
    /\ retry.pc = "loop"
    /\ retry.attempt < retry.max_retries
    /\ retry' = AfterInvocation([retry EXCEPT !.invocations = @ + 1],
                                retry.outcomes[retry.invocations + 1])
    /\ UNCHANGED <<amountVars, recurringVars, ofxVars, parseVars, aiVars>>

\* 95-97: the loop has ended: the last exception is raised (raise None,
\* a TypeError, when there was no iteration).
GiveUp ==
    /\ retry.pc = "loop"
    /\ retry.attempt >= retry.max_retries
    /\ retry' = [retry EXCEPT !.pc = "raised"]
    /\ UNCHANGED <<amountVars, recurringVars, ofxVars, parseVars, aiVars>>

NextRetry == Attempt \/ GiveUp

SpecRetry == InitRetry /\ [][NextRetry]_vars

\* The outcomes of the invocations made so far.
Invoked == SubSeq(retry.outcomes, 1, retry.invocations)

\* The waits of exponential backoff: 1, 2, 4, ...
RECURSIVE Doubling(_, _)
Doubling(n, first) == IF n = 0 THEN <<>> ELSE <<first>> \o Doubling(n - 1, 2 * first)

(* C25: _retry_with_backoff makes at most max_retries invocations; it      *)
(* returns at the first invocation that succeeds; an authentication or     *)
(* quota failure is raised at once, with no further invocation; the waits  *)
(* after failures that are not rate limits double from the initial delay;  *)
(* it does not wait after the final invocation (there are fewer waits than *)
(* invocations when it has ended); and when the attempts are used up it    *)
(* raises the last failure.                                                *)
C25_RetryPolicy ==
    /\ retry.invocations <= retry.max_retries
    /\ \A i \in 1..(retry.invocations - 1) : Invoked[i] \in {"rate_limit", "error"}
    /\ retry.pc = "returned" => Invoked[retry.invocations] = "ok"
    /\ (retry.pc = "loop" /\ retry.invocations > 0) =>
           Invoked[retry.invocations] \in {"rate_limit", "error"}
    /\ SelectSeq(retry.slept, LAMBDA s : s # RateLimitWait) =
           Doubling(Len(SelectSeq(retry.slept, LAMBDA s : s # RateLimitWait)),
                    INITIAL_RETRY_DELAY)
    /\ (retry.pc = "raised" /\ retry.invocations > 0) =>
           /\ retry.last_exception = Invoked[retry.invocations]
           /\ Len(retry.slept) < retry.invocations

(* C24: the request made for an image is retried when it fails: when a     *)
(* first request raises (a timeout, say) and a second one would be         *)
(* answered with transactions, the image is not reported as failed and the *)
(* transactions of the second answer are returned.                         *)
C24_FailedRequestRetried ==
    (/\ ai_done
     /\ ai_file_type = "image/png"
     /\ Len(ai_responses) = 2
     /\ ai_responses[1] = Raised
     /\ ai_responses[2].j = "array"
     /\ ValidRecords(ai_responses[2]) = ai_responses[2].items) =>
        /\ ai_result.errors = <<>>
        /\ Len(ai_result.transactions) = Len(ai_responses[2].items)

(***************************************************************************)
(* detect_recurring_pattern on transactions whose descriptions differ in   *)
(* case, digits, noise characters and blanks, with or without a merchant.  *)
(***************************************************************************)
\* Of the keys "nfx", "nfx", "nf x", "x" and "a" without a merchant.
GroupDescriptions ==
    { <<"N", "F", "X">>,
      <<"n", "-", "f", "_", "x", " ", "1", "2">>,
      <<"N", "F", " ", " ", "X">>,
      <<"X">>,
      <<"A", "#", "1">> }

GroupMerchants == {None, Some(<<"N", "F">>)}

GroupDates == {0, 30}

GroupTxnValues ==
    [description : GroupDescriptions, merchant : GroupMerchants, amount : {-1500},
     date : GroupDates]

InitGroups ==
    /\ transactions \in SeqsUpTo(GroupTxnValues, MaxTxns)
    /\ min_occurrences = DefaultMinOccurrences
    /\ amount_tolerance = DefaultTolerancePct
    /\ detected_subscriptions = <<>>
    /\ recurring_done = FALSE
    /\ IdleBut("recurring")

SpecGroups == InitGroups /\ [][NextRecurring]_vars

\* The merchant (if any), a blank and the description, case-folded, without
\* digits and # * - _, its whitespace collapsed.
FoldedText(txn) ==
    Lower((IF txn.merchant = None THEN <<>> ELSE txn.merchant[1]) \o <<" ">> \o txn.description)

WithoutNoise(s) == SelectSeq(s, LAMBDA ch : ch \notin Digits \cup {"#", "*", "-", "_"})

NormalKey(txn) == SquashWs(Strip(WithoutNoise(FoldedText(txn))))

\* The transactions of the input whose normalised text is that of txn.
SameKey(txn) ==
    { j \in 1..Len(transactions) : NormalKey(transactions[j]) = NormalKey(txn) }

(* C26: detect_recurring_pattern groups two transactions together exactly *)
(* when their merchant-plus-description texts are equal after case         *)
(* folding, removal of digits and of # * - _ and collapsing of whitespace, *)
(* and a transaction whose key has fewer than 3 characters is in no group: *)
(* every candidate counts exactly the transactions of one such text, of 3  *)
(* characters or more, and every such text shared by transactions of both  *)
(* dates has its candidate.                                                *)
C26_GroupedByKey ==
    recurring_done =>
        /\ \A i \in 1..Len(detected_subscriptions) :
               \E j \in 1..Len(transactions) :
                   /\ detected_subscriptions[i].sample_description = transactions[j].description
                   /\ detected_subscriptions[i].occurrences =
                          Cardinality(SameKey(transactions[j]))
                   /\ Len(NormalKey(transactions[j])) >= MinKeyLen
        /\ \A j \in 1..Len(transactions) :
               (/\ Len(NormalKey(transactions[j])) >= MinKeyLen
                /\ Cardinality(SameKey(transactions[j])) = 2
                /\ \E k \in SameKey(transactions[j]) :
                       transactions[k].date # transactions[j].date) =>
                   \E i \in 1..Len(detected_subscriptions) :
                       /\ detected_subscriptions[i].occurrences = 2
                       /\ \E k \in SameKey(transactions[j]) :
                              detected_subscriptions[i].sample_description =
                                  transactions[k].description

\* "n-f_x 12" and "NFX" were grouped, "X" of the merchant "NF" was not.
C26_Witness ==
    /\ recurring_done
    /\ Len(transactions) = 3
    /\ transactions[1].description = <<"n", "-", "f", "_", "x", " ", "1", "2">>
    /\ transactions[1].merchant = None
    /\ transactions[2].description = <<"N", "F", "X">>
    /\ transactions[2].merchant = None
    /\ transactions[3].description = <<"X">>
    /\ transactions[3].merchant = Some(<<"N", "F">>)
    /\ Len(detected_subscriptions) = 1
    /\ detected_subscriptions[1].occurrences = 2

Reorderings(n) == { p \in [1..n -> 1..n] : \A i, j \in 1..n : p[i] = p[j] => i = j }

(* C30: detect_recurring_pattern returns the same list of candidates, in   *)
(* the same order, for every permutation of its input transactions.        *)
C30_OrderIndependent ==
    recurring_done =>
        \A p \in Reorderings(Len(transactions)) :
            detect_recurring_pattern([i \in 1..Len(transactions) |-> transactions[p[i]]],
                                     min_occurrences, amount_tolerance)
                = detected_subscriptions

(***************************************************************************)
(* The line scan of parse_pdf_text (650-696) on lines that hold a date     *)
(* and no amount: a month-first date, an ISO date, a date with a two-digit *)
(* year, and the line of PdfText that holds a date and an amount.  No key  *)
(* is configured, so that the result is what the line scan found.          *)
(***************************************************************************)
TextCoffeeShop == <<" ", "C", "O", "F", "F", "E", "E", " ", "S", "H", "O", "P">>

PdfDateOnlyLine == DateText(2, 3, "/", 4) \o TextCoffeeShop

PdfIsoDateOnlyLine == <<"2", "0", "2", "4", "-", "0", "1", "-", "1", "5">> \o TextCoffeeShop

PdfShortYearOnlyLine == DateText(15, 1, "-", 2) \o TextCoffeeShop

PdfLinesRequest(lines) == Request(NamePdf, PdfContent(<<<<BannerLine>> \o lines>>), FALSE)

DateOnlyRequests ==
    {PdfLinesRequest(<<PdfDateOnlyLine>>),
     PdfLinesRequest(<<PdfIsoDateOnlyLine>>),
     PdfLinesRequest(<<PdfShortYearOnlyLine>>),
     PdfLinesRequest(<<PdfDateOnlyLine, PdfTextLine>>)}

MaxDateOnlyCalls == 2

InitDateOnly == InitParse(BaseRequests \cup DateOnlyRequests, {1}, MaxDateOnlyCalls)

SpecDateOnly == InitDateOnly /\ [][Next]_vars

\* The matches of amount_pattern in s from position i on, each with the
\* position of its last character.
RECURSIVE AmountMatchEnds(_, _)
AmountMatchEnds(s, i) ==
    IF i > Len(s) THEN {}
    ELSE IF AmountMatchEnd(s, i) = 0 THEN AmountMatchEnds(s, i + 1)
    ELSE {[token |-> SubSeq(s, i, AmountMatchEnd(s, i)), end |-> AmountMatchEnd(s, i)]}
             \cup AmountMatchEnds(s, AmountMatchEnd(s, i) + 1)

\* The positions of the date token of a stripped line.
DateSpan(s) ==
    IF DateSearch(s) = 0 THEN {}
    ELSE DateSearch(s)..(DateSearch(s) + DateMatchLen(s, DateSearch(s)) - 1)

\* The amounts of the amount-like tokens of a line that end outside its
\* date token.
AmountsOutsideDate(line) ==
    { parse_amount(m.token) :
          m \in { n \in AmountMatchEnds(Strip(line), 1) : n.end \notin DateSpan(Strip(line)) } }

PdfRequestLines(req) ==
    UNION { { req.content.pages[p][k] : k \in 1..Len(req.content.pages[p]) } :
                p \in 1..Len(req.content.pages) }

ReturnedPdfText == { e \in Returned : e.result.parser_used = "pdf_text" }

(* C27: the amount of every transaction that the PDF text line scan emits  *)
(* is the amount of an amount-like token that lies outside the date token  *)
(* of a line of the document: a line with a date and no amount-like token  *)
(* outside that date yields no transaction.                                *)
C27_AmountNotFromDate ==
    \A e \in ReturnedPdfText :
        \A i \in 1..Len(e.result.transactions) :
            \E line \in PdfRequestLines(e.req) :
                Some(e.result.transactions[i].amount) \in AmountsOutsideDate(line)

(***************************************************************************)
(* CSV files of three columns whose header row names some of the roles:    *)
(* every header cell is Date, Description, Amount or a name no bank        *)
(* configuration knows, and the data rows hold a date, a memo (a text or a *)
(* cheque number) and an amount (signed or not) in any order of columns.   *)
(* The roles the header leaves open are resolved by inference (398-425)    *)
(* and by the description fallback (436-439).                              *)
(***************************************************************************)
TextPaid == <<"P", "a", "i", "d">>

Text1001 == <<"1", "0", "0", "1">>

HeaderNames == {TextDate, TextDescription, TextAmount, TextPaid}

MixedColumns == 1..3

MixedOrders ==
    { order \in [MixedColumns -> MixedColumns] :
          \A r1, r2 \in MixedColumns : order[r1] = order[r2] => r1 = r2 }

MixedMemos == {TextCoffee, Text1001}

MixedAmounts == {TextMinus450, Text450}

\* A data row with the date, the memo and the amount in the columns
\* order[1], order[2] and order[3].
MixedRow(order, date, memo, amount) ==
    [c \in MixedColumns |-> <<date, memo, amount>>[CHOOSE r \in MixedColumns : order[r] = c]]

MixedRequest(header, order, memo, amount) ==
    Request(NameCsv,
            CsvContent(<<header,
                         MixedRow(order, DateText(15, 1, "/", 4), memo, amount),
                         MixedRow(order, DateText(16, 1, "/", 4), memo, amount)>>),
            FALSE)

MixedRequests ==
    { MixedRequest(header, order, memo, amount) :
          header \in [MixedColumns -> HeaderNames], order \in MixedOrders,
          memo \in MixedMemos, amount \in MixedAmounts }

InitMixed == InitParse(BaseRequests \cup MixedRequests, {1}, 1)

SpecMixed == InitMixed /\ [][Next]_vars

\* The columns the row loop reads: the date, the description, and the
\* amount or, without one, the debit and the credit.
RoleColumns(layout) ==
    <<layout.date_col, layout.desc_col>>
        \o (IF layout.amount_col # NoCol THEN <<layout.amount_col>>
            ELSE SelectSeq(<<layout.debit_col, layout.credit_col>>, LAMBDA c : c # NoCol))

PairwiseDistinct(cols) ==
    \A i, j \in 1..Len(cols) : cols[i] = cols[j] => i = j

(* C28: whenever the CSV parser is in the row loop, the columns of the     *)
(* date, the description and the amount (or the debit and the credit) are  *)
(* pairwise distinct, whether they come from the header, the inference or  *)
(* the description fallback.                                               *)
C28_DistinctRoleColumns ==
    \A w \in Workers :
        call[w].pc = "csv_rows" => PairwiseDistinct(RoleColumns(call[w].layout))

\* The row of the file at the 1-based position n holds the text in a cell.
RowHolds(rows, n, text) ==
    /\ n \in 1..Len(rows)
    /\ \E c \in 1..Len(rows[n]) : Strip(rows[n][c]) = text

(* C29: the row number of every transaction of a CSV file is the 1-based   *)
(* position in the file of the row the transaction was read from, in files *)
(* with a header row and in files without one, and the row numbers of the  *)
(* transactions of a file are strictly increasing.                         *)
C29_RowNumberIsPosition ==
    \A e \in ReturnedCsv :
        /\ \A i \in 1..Len(e.result.transactions) :
               RowHolds(e.req.content.rows, e.result.transactions[i].row,
                        e.result.transactions[i].description)
        /\ \A i, j \in 1..Len(e.result.transactions) :
               i < j => e.result.transactions[i].row < e.result.transactions[j].row

====
